---------------------------- MODULE Spec2Model ----------------------------
(***************************************************************************)
(* A model of github.com/theduke/go-reflector: the Reflector value wrapper,*)
(* its conversion engine (ConvertToType / ConvertTo), Set, and the         *)
(* comparison engine (CompareTo), together with the parts of the slice     *)
(* reflector the conversion engine re-enters.                              *)
(*                                                                         *)
(* Go values are records [t |-> type, v |-> payload].  The payload of      *)
(*   an integer kind   is an integer (kept in the width of its kind),      *)
(*   float64           is a rational [n |-> numerator, d |-> denominator], *)
(*   a string kind     is a sequence of characters,                        *)
(*   a bool kind       is a BOOLEAN,                                       *)
(*   time.Time         is [zero, sec, nsec, off],                          *)
(*   a pointer         is <<>> (nil) or <<payload of the pointee>>,        *)
(*   a slice           is [nil |-> BOOLEAN, e |-> sequence of payloads]    *)
(*   (a []interface{} holds whole values as elements).                     *)
(* A call's outcome is [st |-> "ok" | "err" | "panic", err, val].          *)
(***************************************************************************)
EXTENDS Integers, Sequences, FiniteSets, TLC

(***************************************************************************)
(* Characters and texts.                                                   *)
(***************************************************************************)

\* The printable ASCII characters, in code order from 32 (space) to 126
\* (the double quote, code 34, and the backquote, code 96, are written
\* between apostrophes: the lexer accepts neither as a string of its own).
Ascii ==
  << " ", "!", "'dq'", "#", "$", "%", "&", "'", "(", ")", "*", "+", ",", "-",
     ".", "/", "0", "1", "2", "3", "4", "5", "6", "7", "8", "9", ":", ";",
     "<", "=", ">", "?", "@", "A", "B", "C", "D", "E", "F", "G", "H", "I",
     "J", "K", "L", "M", "N", "O", "P", "Q", "R", "S", "T", "U", "V", "W",
     "X", "Y", "Z", "[", "\\", "]", "^", "_", "'bq'", "a", "b", "c", "d", "e",
     "f", "g", "h", "i", "j", "k", "l", "m", "n", "o", "p", "q", "r", "s",
     "t", "u", "v", "w", "x", "y", "z", "{", "|", "}", "~" >>

\* A text is the sequence of its bytes, each written as a one-byte
\* character: Chr(n) is the character of the byte n; a byte that is not
\* printable ASCII is written with its number.
Chr(n) ==
  IF n = 9 THEN "\t"
  ELSE IF n \in 32..126 THEN Ascii[n - 31]
  ELSE "\\x" \o ToString(n)

\* The byte of a character: the inverse of Chr.  (The address fmt prints
\* for a pointer is no byte; it is given 255.)
Code(c) ==
  IF c = "\t" THEN 9
  ELSE IF \E i \in 1..Len(Ascii) : Ascii[i] = c
  THEN 31 + (CHOOSE i \in 1..Len(Ascii) : Ascii[i] = c)
  ELSE IF \E n \in 0..255 : Chr(n) = c
  THEN CHOOSE n \in 0..255 : Chr(n) = c
  ELSE 255

Codes(s) == [i \in 1..Len(s) |-> Code(s[i])]

Digits == << "0", "1", "2", "3", "4", "5", "6", "7", "8", "9" >>

IsDigit(c) == \E i \in 1..10 : Digits[i] = c

DigitVal(c) == (CHOOSE i \in 1..10 : Digits[i] = c) - 1

AllDigits(s) == \A i \in 1..Len(s) : IsDigit(s[i])

\* The value of a sequence of decimal digits.
RECURSIVE DecVal(_)
DecVal(s) ==
  IF s = << >> THEN 0
  ELSE DecVal(SubSeq(s, 1, Len(s) - 1)) * 10 + DigitVal(s[Len(s)])

\* strconv.FormatInt(n, 10) for n >= 0.
RECURSIVE NatText(_)
NatText(n) ==
  IF n < 10 THEN << Digits[n + 1] >>
  ELSE NatText(n \div 10) \o << Digits[(n % 10) + 1] >>

IntText(n) == IF n < 0 THEN << "-" >> \o NatText(0 - n) ELSE NatText(n)

\* n as exactly w digits, zero padded.
RECURSIVE PadText(_, _)
PadText(n, w) ==
  IF w = 0 THEN << >>
  ELSE PadText(n \div 10, w - 1) \o << Digits[(n % 10) + 1] >>

\* strings.ToLower / strings.TrimSpace of the bool parsing.  ToLower is
\* used to look the text up among ASCII words only: the bytes outside ASCII
\* are kept, as no letter outside ASCII has a lower case among the letters
\* of these words.
ToLowerChar(c) == IF Code(c) \in 65..90 THEN Chr(Code(c) + 32) ELSE c

ToLower(s) == [i \in 1..Len(s) |-> ToLowerChar(s[i])]

\* unicode.IsSpace, on the UTF-8 bytes of a rune: tab, line feed, vertical
\* tab, form feed, carriage return, space, U+0085, U+00A0, U+1680,
\* U+2000 to U+200A, U+2028, U+2029, U+202F, U+205F and U+3000.
SpaceRunes ==
  {<< 9 >>, << 10 >>, << 11 >>, << 12 >>, << 13 >>, << 32 >>,
   << 194, 133 >>, << 194, 160 >>, << 225, 154, 128 >>,
   << 226, 128, 168 >>, << 226, 128, 169 >>, << 226, 128, 175 >>,
   << 226, 129, 159 >>, << 227, 128, 128 >>}
    \cup {<< 226, 128, b >> : b \in 128..138}

IsSpace(s) == Codes(s) \in SpaceRunes

RECURSIVE TrimLeft(_)
TrimLeft(s) ==
  IF \E k \in 1..3 : k <= Len(s) /\ IsSpace(SubSeq(s, 1, k))
  THEN TrimLeft(SubSeq(s, 1 + (CHOOSE k \in 1..3 :
                                 k <= Len(s) /\ IsSpace(SubSeq(s, 1, k))),
                       Len(s)))
  ELSE s

RECURSIVE TrimRight(_)
TrimRight(s) ==
  IF \E k \in 1..3 : k <= Len(s) /\ IsSpace(SubSeq(s, Len(s) - k + 1, Len(s)))
  THEN TrimRight(SubSeq(s, 1, Len(s) - (CHOOSE k \in 1..3 :
                   k <= Len(s) /\ IsSpace(SubSeq(s, Len(s) - k + 1, Len(s))))))
  ELSE s

TrimSpace(s) == TrimRight(TrimLeft(s))

\* strings.Contains(a, b).
Contains(a, b) ==
  \E i \in 1..(Len(a) + 1) :
    /\ i + Len(b) - 1 <= Len(a)
    /\ SubSeq(a, i, i + Len(b) - 1) = b

\* The byte-wise order of Go strings: a < b.
RECURSIVE StrLess(_, _)
StrLess(a, b) ==
  IF b = << >> THEN FALSE
  ELSE IF a = << >> THEN TRUE
  ELSE IF Code(a[1]) # Code(b[1]) THEN Code(a[1]) < Code(b[1])
  ELSE StrLess(Tail(a), Tail(b))

(***************************************************************************)
(* Rationals: the float64 values of the model.                             *)
(***************************************************************************)

Abs(n) == IF n < 0 THEN 0 - n ELSE n

RECURSIVE Gcd(_, _)
Gcd(a, b) == IF b = 0 THEN a ELSE Gcd(b, a % b)

Q(n, d) ==
  LET g == Gcd(Abs(n), d) IN [n |-> n \div g, d |-> d \div g]

QInt(n) == [n |-> n, d |-> 1]

\* The float that is not a number: it is less than, greater than and equal
\* to nothing, itself included.
QNaN == [n |-> 0, d |-> 0]

\* The two infinities.
QPosInf == [n |-> 1, d |-> 0]

QNegInf == [n |-> 0 - 1, d |-> 0]

QIsNaN(x) == x.d = 0 /\ x.n = 0

QIsInf(x) == x.d = 0 /\ x.n # 0

\* x < y of two floats.
QLess(x, y) ==
  /\ ~QIsNaN(x) /\ ~QIsNaN(y)
  /\ IF x.d = 0 /\ y.d = 0 THEN x.n < y.n ELSE x.n * y.d < y.n * x.d

\* Truncation toward zero of a finite float, as a float-to-integer
\* conversion does.
QTrunc(x) == IF x.n < 0 THEN 0 - ((0 - x.n) \div x.d) ELSE x.n \div x.d

RECURSIVE Pow10(_)
Pow10(k) == IF k = 0 THEN 1 ELSE 10 * Pow10(k - 1)


(***************************************************************************)
(* Types.  A type is named by its Go spelling; MyString and MyBool are     *)
(* declared types over string and bool (type MyString string), Duration is *)
(* time.Duration (an int64), Time is time.Time, []uint8 is []byte and      *)
(* []interface is []interface{}.                                           *)
(***************************************************************************)

IntTypes == {"int", "int8", "uint8", "int16", "Duration"}

FloatTypes == {"float64"}

StringTypes == {"string", "MyString"}

BoolTypes == {"bool", "MyBool"}

PtrTypes == {"*int", "*string", "*Time"}

SliceTypes == {"[]int", "[]uint8", "[]string", "[]float64", "[]interface"}

Types ==
  IntTypes \cup FloatTypes \cup StringTypes \cup BoolTypes \cup {"Time"}
    \cup PtrTypes \cup SliceTypes

\* reflect.Type.Kind().
Kind(t) ==
  CASE t = "Duration" -> "int64"
    [] t \in IntTypes \ {"Duration"} -> t
    [] t \in FloatTypes -> "float64"
    [] t = "float32" -> "float32"
    [] t \in StringTypes -> "string"
    [] t \in BoolTypes -> "bool"
    [] t = "Time" -> "struct"
    [] t \in PtrTypes -> "ptr"
    [] t \in SliceTypes -> "slice"
    [] t = "interface" -> "interface"
    [] t \in {"Rec", "S", "N"} -> "struct"
    [] t = "[]S" -> "slice"
    [] t = "[2]int" -> "array"
    [] t \in {"*[]int", "*[]string", "*S", "*N"} -> "ptr"
    [] t \in {"map[string]int", "map[string]interface"} -> "map"
    [] OTHER -> "invalid"

\* reflect.Type.Elem() of a pointer or slice type.
ElemType(t) ==
  CASE t = "*int" -> "int"
    [] t = "*string" -> "string"
    [] t = "*Time" -> "Time"
    [] t = "[]int" -> "int"
    [] t = "[]uint8" -> "uint8"
    [] t = "[]string" -> "string"
    [] t = "[]float64" -> "float64"
    [] t = "[]interface" -> "interface"
    [] t = "*[]int" -> "[]int"
    [] t = "[]S" -> "S"
    [] t = "*S" -> "S"
    [] t = "*N" -> "N"
    [] t = "*[]string" -> "[]string"
    [] OTHER -> "invalid"

\* reflect.PtrTo / reflect.SliceOf.
PtrTo(t) == "*" \o t

SliceOf(t) == "[]" \o t

IsNumericKind(kind) ==
  kind \in {"int", "int8", "int16", "int32", "int64", "uint", "uint8",
            "uint16", "uint32", "uint64", "float32", "float64"}

IsIntKind(kind) ==
  kind \in {"int", "int8", "int16", "int32", "int64", "uint", "uint8",
            "uint16", "uint32", "uint64"}

IsFloatKind(kind) == kind \in {"float32", "float64"}

IsUnsignedKind(kind) == kind \in {"uint", "uint8", "uint16", "uint32", "uint64"}

\* The width of an integer kind, in bits.
Bits(kind) ==
  CASE kind \in {"int8", "uint8"} -> 8
    [] kind \in {"int16", "uint16"} -> 16
    [] kind \in {"int32", "uint32"} -> 32
    [] OTHER -> 64

RECURSIVE Pow2(_)
Pow2(k) == IF k = 0 THEN 1 ELSE 2 * Pow2(k - 1)

\* WrapInt without the sign: the cut keeps the low bits as they are.
WrapInt_Unsigned(n, kind) ==
  IF Bits(kind) > 16 THEN n ELSE n % Pow2(Bits(kind))

\* An integer brought into the range of an integer kind, as Go's integer
\* conversions do (two's complement truncation).  The 64-bit kinds hold
\* every integer of the model as it is.
WrapInt(n, kind) ==
  IF Bits(kind) > 16 THEN n
  ELSE IF IsUnsignedKind(kind) THEN n % Pow2(Bits(kind))
  ELSE ((n + Pow2(Bits(kind) - 1)) % Pow2(Bits(kind))) - Pow2(Bits(kind) - 1)

InRange(n, kind) == WrapInt(n, kind) = n /\ (IsUnsignedKind(kind) => n >= 0)

(***************************************************************************)
(* Values, reflectors and outcomes.                                        *)
(***************************************************************************)

V(t, v) == [t |-> t, v |-> v]

\* The zero reflect.Value: what Reflect(nil) wraps.
Invalid == V("invalid", << >>)

\* A nil *Reflector (what Elem() returns for a nil pointer).
NilR == V("nil *Reflector", << >>)

\* The nil interface{} a failing call returns as its value.
NilIface == V("nil", << >>)

Ok(val) == [st |-> "ok", err |-> "", val |-> val]

Err(e) == [st |-> "err", err |-> e, val |-> NilIface]

\* The call did not return: a run-time panic left it.
Panic == [st |-> "panic", err |-> "", val |-> NilIface]

ERR_INVALID_TIME == "invalid_time_not_rfc3339"

ERR_UNCONVERTABLE_TYPES == "unconvertable_types"

ERR_INVALID_VALUE == "invalid_value"

ERR_NOT_A_SLICE == "not_a_slice"

ERR_UNSETTABLE_VALUE == "unsettable_value"

ERR_TYPE_MISMATCH == "type_mismatch"

ERR_UNKNOWN_OPERATOR == "unknown_operator"

ERR_CANT_APPEND_NOT_A_POINTER ==
  "cant_append_when_slice_reflector_not_created_from_pointer"

\* The *strconv.NumError of a text that is no floating-point literal.
ERR_INDEX_OUT_OF_BOUNDS == "index_out_of_bounds"

ERR_UNKNOWN_FIELD == "unknown_field"

ERR_NOT_A_STRUCT == "not_a_struct"

ERR_UNCOMPARABLE_VALUES == "uncomparable_values"

ERR_PARSE_FLOAT == "strconv.ParseFloat: invalid syntax"

ZeroTime == [zero |-> TRUE, sec |-> 0, nsec |-> 0, off |-> 0]

\* Rec is a struct with one field of a slice type, struct{ Items []int }:
\* its zero value, and whether == is defined on a type (it is on every
\* other type of the model that IsZero compares).
ZeroRec == [items |-> [nil |-> TRUE, e |-> << >>]]

Comparable(t) == t # "Rec"

\* reflect.Zero(t): the payload of the zero value of a type.
ZeroPayload(t) ==
  CASE IsFloatKind(Kind(t)) -> QInt(0)
    [] IsIntKind(Kind(t)) -> 0
    [] Kind(t) = "string" -> << >>
    [] Kind(t) = "bool" -> FALSE
    [] t = "Time" -> ZeroTime
    [] t = "Rec" -> ZeroRec
    [] t = "S" -> [Int |-> 0, Flag |-> FALSE]
    [] Kind(t) = "ptr" -> << >>
    [] Kind(t) \in {"slice", "map"} -> [nil |-> TRUE, e |-> << >>]
    [] Kind(t) = "array" -> << 0, 0 >>
    [] OTHER -> << >>

IsValid(r) == r.t # "invalid"

IsPtr(r) == IsValid(r) /\ Kind(r.t) = "ptr"

IsString(r) == IsValid(r) /\ Kind(r.t) = "string"

IsSlice(r) == IsValid(r) /\ Kind(r.t) = "slice"

IsBool(r) == IsValid(r) /\ Kind(r.t) = "bool"

IsNumeric(r) == IsValid(r) /\ IsNumericKind(Kind(r.t))


IsArray(r) == IsValid(r) /\ Kind(r.t) = "array"

IsMap(r) == IsValid(r) /\ Kind(r.t) = "map"

\* Reflector.IsNil: only a pointer, a slice or a map of the model can be
\* nil.
IsNil(r) ==
  IF ~IsValid(r) THEN TRUE
  ELSE CASE Kind(r.t) = "ptr" -> r.v = << >>
         [] Kind(r.t) \in {"slice", "map"} -> r.v.nil
         [] OTHER -> FALSE

\* Reflector.IsZero: nil, or equal to the zero value of its type.
IsZero(r) ==
  IF IsNil(r) THEN TRUE
  ELSE IF IsSlice(r) \/ IsArray(r) \/ IsMap(r) THEN FALSE
  ELSE r.v = ZeroPayload(r.t)

\* Reflector.Elem: the pointee, or a nil *Reflector.
Elem(r) ==
  IF IsNil(r) THEN NilR
  ELSE IF ~IsPtr(r) THEN NilR
  ELSE V(ElemType(r.t), r.v[1])

\* Reflector.DeepIsZero.
RECURSIVE DeepIsZero(_)
DeepIsZero(r) ==
  IF IsZero(r) THEN TRUE
  ELSE IF IsPtr(r) THEN DeepIsZero(Elem(r))
  ELSE FALSE

(***************************************************************************)
(* The library functions the conversion engine calls.                      *)
(***************************************************************************)

\* The first position of a character of set cs in s, or 0.
FirstOf(s, cs) ==
  IF \E i \in 1..Len(s) : s[i] \in cs
  THEN CHOOSE i \in 1..Len(s) :
         s[i] \in cs /\ \A j \in 1..(i - 1) : s[j] \notin cs
  ELSE 0

\* The special values strconv.ParseFloat reads, whatever the case of the
\* letters: "nan" without a sign, and "inf" or "infinity" with or without
\* one.
SpecialFloats ==
  [text : {<< "n", "a", "n" >>}, q : {QNaN}]
    \cup [text : {<< "i", "n", "f" >>, << "+", "i", "n", "f" >>,
                  << "i", "n", "f", "i", "n", "i", "t", "y" >>,
                  << "+", "i", "n", "f", "i", "n", "i", "t", "y" >>},
          q : {QPosInf}]
    \cup [text : {<< "-", "i", "n", "f" >>,
                  << "-", "i", "n", "f", "i", "n", "i", "t", "y" >>},
          q : {QNegInf}]

\* strconv.ParseFloat(s, 64): a special value, or a decimal literal made of
\* an optional sign, digits with an optional point and an optional exponent.
\* (Hexadecimal floats and digit separators, which strconv reads since Go
\* 1.13, are in no text of the model.)
ParseFloat(s) ==
  LET special == {x \in SpecialFloats : x.text = ToLower(s)}
      signed == s # << >> /\ s[1] \in {"+", "-"}
      neg == signed /\ s[1] = "-"
      body == IF signed THEN Tail(s) ELSE s
      ePos == FirstOf(body, {"e", "E"})
      mant == IF ePos = 0 THEN body ELSE SubSeq(body, 1, ePos - 1)
      expo == IF ePos = 0 THEN << >> ELSE SubSeq(body, ePos + 1, Len(body))
      expSigned == expo # << >> /\ expo[1] \in {"+", "-"}
      expDigits == IF expSigned THEN Tail(expo) ELSE expo
      dot == FirstOf(mant, {"."})
      ip == IF dot = 0 THEN mant ELSE SubSeq(mant, 1, dot - 1)
      fp == IF dot = 0 THEN << >> ELSE SubSeq(mant, dot + 1, Len(mant))
      wellFormed ==
        /\ AllDigits(ip) /\ AllDigits(fp)
        /\ Len(ip) + Len(fp) >= 1
        /\ (ePos # 0 => expDigits # << >> /\ AllDigits(expDigits))
      num == DecVal(ip) * Pow10(Len(fp)) + DecVal(fp)
      e == IF expSigned /\ expo[1] = "-" THEN 0 - DecVal(expDigits)
           ELSE DecVal(expDigits)
      mag == IF e >= 0 THEN Q(num * Pow10(e), Pow10(Len(fp)))
             ELSE Q(num, Pow10(Len(fp)) * Pow10(0 - e))
  IN IF special # {} THEN [ok |-> TRUE, q |-> (CHOOSE x \in special : TRUE).q]
     ELSE IF ~wellFormed THEN [ok |-> FALSE, q |-> QInt(0)]
     ELSE [ok |-> TRUE, q |-> IF neg THEN Q(0 - mag.n, mag.d) ELSE mag]

\* The decimal digits of rem/d after the point (d divides a power of ten).
RECURSIVE FracDigits(_, _)
FracDigits(rem, d) ==
  IF rem = 0 THEN << >>
  ELSE << Digits[((rem * 10) \div d) + 1] >> \o FracDigits((rem * 10) % d, d)

\* fmt's %v of a float: the shortest decimal that reads back, without an
\* exponent for the magnitudes of the model.
FloatText(q) ==
  IF QIsNaN(q) THEN << "N", "a", "N" >>
  ELSE IF QIsInf(q)
  THEN (IF q.n > 0 THEN << "+", "I", "n", "f" >> ELSE << "-", "I", "n", "f" >>)
  ELSE LET a == Abs(q.n)
           frac == FracDigits(a % q.d, q.d)
       IN (IF q.n < 0 THEN << "-" >> ELSE << >>)
            \o NatText(a \div q.d)
            \o (IF frac = << >> THEN << >> ELSE << "." >> \o frac)

IsLeap(y) == (y % 4 = 0 /\ y % 100 # 0) \/ y % 400 = 0

DaysIn(y, m) ==
  IF m = 2 THEN (IF IsLeap(y) THEN 29 ELSE 28)
  ELSE IF m \in {4, 6, 9, 11} THEN 30 ELSE 31

\* Days from 1970-01-01 to the civil date y-m-d.
DaysFromCivil(y, m, d) ==
  LET yy == IF m <= 2 THEN y - 1 ELSE y
      era == yy \div 400
      yoe == yy - era * 400
      mp == IF m > 2 THEN m - 3 ELSE m + 9
      doy == ((153 * mp + 2) \div 5) + d - 1
      doe == yoe * 365 + (yoe \div 4) - (yoe \div 100) + doy
  IN era * 146097 + doe - 719468

\* The civil date of a day count from 1970-01-01.
CivilFromDays(z0) ==
  LET z == z0 + 719468
      era == z \div 146097
      doe == z - era * 146097
      yoe == (doe - (doe \div 1460) + (doe \div 36524) - (doe \div 146096))
               \div 365
      doy == doe - (365 * yoe + (yoe \div 4) - (yoe \div 100))
      mp == (5 * doy + 2) \div 153
      d == doy - ((153 * mp + 2) \div 5) + 1
      m == IF mp < 10 THEN mp + 3 ELSE mp - 9
      y == yoe + era * 400 + (IF m <= 2 THEN 1 ELSE 0)
  IN [y |-> y, m |-> m, d |-> d]

\* time.Parse(time.RFC3339, s): yyyy-mm-ddThh:mm:ss, an optional fraction
\* of a second, then Z or a +hh:mm / -hh:mm offset.
ParseRFC3339(s) ==
  LET bad == [ok |-> FALSE, time |-> ZeroTime]
      num(i, j) == DecVal(SubSeq(s, i, j))
      fracLen ==
        IF Len(s) >= 21 /\ s[20] = "."
        THEN (CHOOSE k \in 0..Len(s) :
                /\ \A i \in 21..(20 + k) : i <= Len(s) /\ IsDigit(s[i])
                /\ (20 + k + 1 > Len(s) \/ ~IsDigit(s[20 + k + 1])))
        ELSE 0
      zp == IF Len(s) >= 21 /\ s[20] = "." THEN 21 + fracLen ELSE 20
      frac == SubSeq(s, 21, 20 + fracLen)
      zone == SubSeq(s, zp, Len(s))
      zoneOk ==
        \/ zone = << "Z" >>
        \/ /\ Len(zone) = 6
           /\ zone[1] \in {"+", "-"}
           /\ zone[4] = ":"
           /\ AllDigits(SubSeq(zone, 2, 3)) /\ AllDigits(SubSeq(zone, 5, 6))
           /\ DecVal(SubSeq(zone, 2, 3)) < 24
           /\ DecVal(SubSeq(zone, 5, 6)) < 60
      shape ==
        /\ Len(s) >= 20
        /\ AllDigits(SubSeq(s, 1, 4)) /\ s[5] = "-"
        /\ AllDigits(SubSeq(s, 6, 7)) /\ s[8] = "-"
        /\ AllDigits(SubSeq(s, 9, 10)) /\ s[11] = "T"
        /\ AllDigits(SubSeq(s, 12, 13)) /\ s[14] = ":"
        /\ AllDigits(SubSeq(s, 15, 16)) /\ s[17] = ":"
        /\ AllDigits(SubSeq(s, 18, 19))
        /\ (s[20] = "." => fracLen \in 1..9)
        /\ zoneOk
      inRange ==
        /\ num(6, 7) \in 1..12
        /\ num(9, 10) \in 1..DaysIn(num(1, 4), num(6, 7))
        /\ num(12, 13) < 24 /\ num(15, 16) < 60 /\ num(18, 19) < 60
      off == IF zone = << "Z" >> THEN 0
             ELSE (IF zone[1] = "-" THEN -1 ELSE 1)
                    * (DecVal(SubSeq(zone, 2, 3)) * 3600
                         + DecVal(SubSeq(zone, 5, 6)) * 60)
      local == DaysFromCivil(num(1, 4), num(6, 7), num(9, 10)) * 86400
                 + num(12, 13) * 3600 + num(15, 16) * 60 + num(18, 19)
  IN IF ~shape THEN bad
     ELSE IF ~inRange THEN bad
     ELSE [ok |-> TRUE,
           time |-> [zero |-> FALSE, sec |-> local - off,
                     nsec |-> DecVal(frac) * Pow10(9 - fracLen),
                     off |-> off]]

\* The digits of a fraction of a second with the trailing zeros dropped.
RECURSIVE DropZeros(_)
DropZeros(s) ==
  IF s # << >> /\ s[Len(s)] = "0" THEN DropZeros(SubSeq(s, 1, Len(s) - 1))
  ELSE s

\* time.Time.String(): "2006-01-02 15:04:05.999999999 -0700 MST" (the local
\* zone of the process is taken to be UTC, so an offset that is not zero is
\* an unnamed fixed zone, printed as its offset).
TimeText(t) ==
  IF t.zero
  THEN << "0", "0", "0", "1", "-", "0", "1", "-", "0", "1", " ",
          "0", "0", ":", "0", "0", ":", "0", "0", " ",
          "+", "0", "0", "0", "0", " ", "U", "T", "C" >>
  ELSE
    LET loc == t.sec + t.off
        c == CivilFromDays(loc \div 86400)
        sod == loc % 86400
        a == Abs(t.off)
        offText == << (IF t.off < 0 THEN "-" ELSE "+") >>
                     \o PadText(a \div 3600, 2) \o PadText((a % 3600) \div 60, 2)
        fr == DropZeros(PadText(t.nsec, 9))
    IN PadText(c.y, 4) \o << "-" >> \o PadText(c.m, 2) \o << "-" >>
         \o PadText(c.d, 2) \o << " " >>
         \o PadText(sod \div 3600, 2) \o << ":" >>
         \o PadText((sod % 3600) \div 60, 2) \o << ":" >>
         \o PadText(sod % 60, 2)
         \o (IF fr = << >> THEN << >> ELSE << "." >> \o fr)
         \o << " " >> \o offText \o << " " >>
         \o (IF t.off = 0 THEN << "U", "T", "C" >> ELSE offText)

\* time.Duration.String() of a duration below one microsecond.
DurationText(d) ==
  IF d = 0 THEN << "0", "s" >> ELSE IntText(d) \o << "n", "s" >>

\* Whether a value's method set holds String() string (fmt.Stringer).
IsStringer(t) == t \in {"Time", "*Time", "Duration"}


(***************************************************************************)
(* The state: one call of the library, its inputs and its outcome.         *)
(*   call      the method the scenario calls                               *)
(*   recv      the value the receiver (a *Reflector) wraps                 *)
(*   settable  whether the receiver wraps addressable storage              *)
(*             (Reflect(&x).Elem()) or a copy (Reflect(x))                 *)
(*   store     the content of the storage behind the receiver              *)
(*   arg       the value argument (a sample, the value to set, the right   *)
(*             operand)                                                    *)
(*   typ       the target type                                             *)
(*   oper      the comparison operator                                     *)
(*   conv      the convert flag of Set                                     *)
(*   platform  how the build converts a negative float64 to an unsigned    *)
(*             integer, which Go leaves to the implementation              *)
(*   pc        "ready" before the call, "done" after it, "back" after the  *)
(*             result was converted back                                   *)
(*   out       the outcome of the call                                     *)
(*   back      the outcome of converting the result back                   *)
(***************************************************************************)
\* spare is the capacity a slice has beyond its length; index and index2
\* are the indexes a slice call is given; field and ascending are the
\* field name and the direction a sort or a field call is given; sortFunc
\* is the ordering function SortBy or SortByFieldFunc is given.
VARIABLES sortFunc, field, ascending, spare, index, index2, call, recv,
          settable, store, arg, typ, oper, conv, platform, pc, out, back

vars == << sortFunc, field, ascending, spare, index, index2, call, recv,
           settable, store, arg, typ, oper, conv, platform, pc, out, back >>

Platforms == {"wrap", "saturate"}

\* The UTF-8 bytes of the rune n.
Utf8(n) ==
  IF n < 128 THEN << Chr(n) >>
  ELSE IF n < 2048 THEN << Chr(192 + (n \div 64)), Chr(128 + (n % 64)) >>
  ELSE IF n < 65536
  THEN << Chr(224 + (n \div 4096)), Chr(128 + ((n \div 64) % 64)),
          Chr(128 + (n % 64)) >>
  ELSE << Chr(240 + (n \div 262144)), Chr(128 + ((n \div 4096) % 64)),
          Chr(128 + ((n \div 64) % 64)), Chr(128 + (n % 64)) >>

\* string(rune(n)), as reflect converts an integer to a string: the UTF-8
\* text of the rune, of U+FFFD when n is no rune.
RuneText(n) ==
  IF n < 0 \/ n > 1114111 \/ n \in 55296..57343 THEN Utf8(65533)
  ELSE Utf8(n)

\* reflect.Type.ConvertibleTo.
ConvertibleTo(src, dst) ==
  \/ src = dst
  \/ IsNumericKind(Kind(src)) /\ IsNumericKind(Kind(dst))
  \/ IsIntKind(Kind(src)) /\ Kind(dst) = "string"
  \/ Kind(src) = "string" /\ Kind(dst) = "string"
  \/ Kind(src) = "string" /\ dst = "[]uint8"
  \/ src = "[]uint8" /\ Kind(dst) = "string"
  \/ Kind(src) = "bool" /\ Kind(dst) = "bool"

\* A NaN or an infinity converted to an integer kind, which Go leaves to the
\* implementation.  reflect converts to int64 or uint64 and cuts to the
\* width.  One build ("wrap") gives the 64-bit pattern 1000...0 for all
\* three; the other ("saturate") gives 0 for NaN and for an infinity the end
\* of the 64-bit range on its side.  Cut to a narrower kind that is 0, or
\* all bits set for the positive infinity of "saturate".  (The ends of the
\* 64-bit range are written as powers of two; the operands of the model
\* that are NaN or infinite are compared, and converted to float64 only.)
NonFiniteToInt(q, kind) ==
  LET ones == platform = "saturate" /\ QIsInf(q) /\ q.n > 0
  IN IF Bits(kind) < 64
     THEN (IF ~ones THEN 0
           ELSE IF IsUnsignedKind(kind) THEN Pow2(Bits(kind)) - 1
           ELSE 0 - 1)
     ELSE IF platform = "saturate" /\ QIsNaN(q) THEN 0
     ELSE IF ones
     THEN (IF IsUnsignedKind(kind) THEN Pow2(64) - 1 ELSE Pow2(63) - 1)
     ELSE IF IsUnsignedKind(kind)
     THEN (IF platform = "saturate" THEN 0 ELSE Pow2(63))
     ELSE 0 - Pow2(63)

\* A float converted to an integer kind: truncated, then cut to the width;
\* a negative value converted to an unsigned kind is implementation-dependent.
FloatToInt(q, kind) ==
  IF q.d = 0 THEN NonFiniteToInt(q, kind)
  ELSE IF IsUnsignedKind(kind) /\ QTrunc(q) < 0
  THEN (IF platform = "saturate" THEN 0 ELSE WrapInt(QTrunc(q), kind))
  ELSE WrapInt(QTrunc(q), kind)

\* n/d, n not negative, rounded to the nearest integer, a half to the even
\* one.
RoundHalfEven(n, d) ==
  IF 2 * (n % d) < d THEN n \div d
  ELSE IF 2 * (n % d) > d THEN (n \div d) + 1
  ELSE (n \div d) + ((n \div d) % 2)

\* The least k from k on with a/d * 2^k >= 2^23.
RECURSIVE ScaleUp(_, _, _)
ScaleUp(a, d, k) ==
  IF (a * Pow2(k)) \div d >= 8388608 THEN k ELSE ScaleUp(a, d, k + 1)

\* The least j from j on with a/d < 2^(24 + j).
RECURSIVE ScaleDown(_, _, _)
ScaleDown(a, d, j) ==
  IF a \div d < 16777216 * Pow2(j) THEN j ELSE ScaleDown(a, d, j + 1)

\* float32(q): the nearest float with a mantissa of 24 bits.  (No number of
\* the model is outside the exponent range of float32.)
RoundFloat32(q) ==
  IF q.d = 0 \/ q.n = 0 THEN q
  ELSE LET a == Abs(q.n)
           sign == IF q.n < 0 THEN 0 - 1 ELSE 1
           j == ScaleDown(a, q.d, 0)
           k == ScaleUp(a, q.d, 0)
       IN IF j > 0
          THEN QInt(sign * RoundHalfEven(a, q.d * Pow2(j)) * Pow2(j))
          ELSE Q(sign * RoundHalfEven(a * Pow2(k), q.d), Pow2(k))

\* reflect.Value.Convert for a convertible pair: the converted value.
Convert(val, dst) ==
  LET ks == Kind(val.t)
      kd == Kind(dst)
  IN CASE val.t = dst -> val
       [] IsIntKind(ks) /\ IsIntKind(kd) -> V(dst, WrapInt(val.v, kd))
       [] IsIntKind(ks) /\ kd = "float64" -> V(dst, QInt(val.v))
       [] IsIntKind(ks) /\ kd = "float32" ->
            V(dst, RoundFloat32(QInt(val.v)))
       [] IsFloatKind(ks) /\ IsIntKind(kd) -> V(dst, FloatToInt(val.v, kd))
       [] IsFloatKind(ks) /\ kd = "float64" -> V(dst, val.v)
       [] IsFloatKind(ks) /\ kd = "float32" -> V(dst, RoundFloat32(val.v))
       [] IsIntKind(ks) /\ kd = "string" -> V(dst, RuneText(val.v))
       [] ks = "string" /\ kd = "string" -> V(dst, val.v)
       [] ks = "bool" /\ kd = "bool" -> V(dst, val.v)
       [] ks = "string" /\ dst = "[]uint8" ->
            V(dst, [nil |-> FALSE,
                    e |-> [i \in 1..Len(val.v) |-> Code(val.v[i])]])
       [] val.t = "[]uint8" /\ kd = "string" ->
            V(dst, [i \in 1..Len(val.v.e) |-> Chr(val.v.e[i])])
       [] OTHER -> NilIface

\* The texts of a sequence joined by single spaces.
RECURSIVE JoinTexts(_)
JoinTexts(ts) ==
  IF ts = << >> THEN << >>
  ELSE IF Len(ts) = 1 THEN ts[1]
  ELSE ts[1] \o << " " >> \o JoinTexts(Tail(ts))

\* The element i of a slice value, as a value.
ElemValue(val, i) ==
  IF val.t = "[]interface" THEN val.v.e[i]
  ELSE V(ElemType(val.t), val.v.e[i])

\* fmt.Sprintf("%v", val).  A pointer that is not nil prints as its address,
\* which no two runs share: the model writes it as the one character "0xADDR".
RECURSIVE Sprintf(_)
Sprintf(val) ==
  CASE val.t = "nil" -> << "<", "n", "i", "l", ">" >>
    [] Kind(val.t) = "ptr" /\ val.v = << >> -> << "<", "n", "i", "l", ">" >>
    [] val.t = "Time" -> TimeText(val.v)
    [] val.t = "*Time" -> TimeText(val.v[1])
    [] val.t = "Duration" -> DurationText(val.v)
    [] Kind(val.t) = "ptr" -> << "0xADDR" >>
    [] IsIntKind(Kind(val.t)) -> IntText(val.v)
    [] IsFloatKind(Kind(val.t)) -> FloatText(val.v)
    [] Kind(val.t) = "string" -> val.v
    [] Kind(val.t) = "bool" ->
         IF val.v THEN << "t", "r", "u", "e" >>
         ELSE << "f", "a", "l", "s", "e" >>
    [] Kind(val.t) = "slice" ->
         << "[" >>
           \o JoinTexts([i \in 1..Len(val.v.e) |-> Sprintf(ElemValue(val, i))])
           \o << "]" >>
    [] OTHER -> << "?" >>


(***************************************************************************)
(* The slice reflector, as far as the conversion engine enters it.         *)
(***************************************************************************)

\* Reflect(reflect.Value): a value of interface kind is unwrapped, and a nil
\* interface gives a nil *Reflector.
Reflect(val) == IF val.t = "nil" THEN NilR ELSE val

\* SliceReflector.Index(i) for an existing element.
Index(val, i) == Reflect(ElemValue(val, i))

\* SliceReflector.Items().
Items(val) == [i \in 1..Len(val.v.e) |-> Index(val, i)]

\* The loop of SliceReflector.ConvertToType over the items that are left;
\* acc holds the elements appended to the new slice so far.
RECURSIVE ConvertItems(_, _, _)
ConvertItems(items, elemTyp, acc) ==
  IF items = << >>
  THEN Ok(V(SliceOf(elemTyp), [nil |-> FALSE, e |-> acc]))
  ELSE
    LET item == IF IsPtr(items[1]) /\ Kind(elemTyp) # "ptr"
                THEN Elem(items[1]) ELSE items[1]
    IN IF item = NilR THEN Panic
       ELSE IF item.t # elemTyp /\ ~ConvertibleTo(item.t, elemTyp)
       THEN Err(ERR_TYPE_MISMATCH)
       ELSE ConvertItems(Tail(items), elemTyp,
                         Append(acc, Convert(item, elemTyp).v))

\* SliceReflector.ConvertToType(typ) on the reflector of a slice value.
SliceConvertToType(val, elemTyp) ==
  IF Kind(elemTyp) = "interface" THEN Panic
  ELSE IF Len(val.v.e) = 0
  THEN Ok(V("*SliceReflector", V(SliceOf(elemTyp), [nil |-> FALSE, e |-> << >>])))
  ELSE IF \E i \in 1..Len(val.v.e) : Index(val, i) = NilR THEN Panic
  ELSE ConvertItems(Items(val), elemTyp, << >>)

(***************************************************************************)
(* The conversion engine.                                                  *)
(***************************************************************************)

\* Reflector.saveConvertToType: reflect's conversion with its panic
\* recovered; nil when the conversion panicked.
saveConvertToType(r, t) ==
  IF ConvertibleTo(r.t, t) THEN Convert(r, t) ELSE NilIface

\* ConvertGeneric without the check for nil.
ConvertGeneric_NilAccepted(converted) == Ok(converted)

\* The end of ConvertToType: a nil result of saveConvertToType is an error.
ConvertGeneric(converted) ==
  IF converted = NilIface THEN Err(ERR_UNCONVERTABLE_TYPES) ELSE Ok(converted)

\* The time target of ConvertToType, given what time.Parse returned.
ConvertToTime(isTime, parsed) ==
  IF ~parsed.ok THEN Err(ERR_INVALID_TIME)
  ELSE IF isTime THEN Ok(V("Time", parsed.time))
  ELSE Ok(V("*Time", << parsed.time >>))

\* The numeric target of ConvertToType for a string, given what
\* strconv.ParseFloat returned.
ConvertToNumber(parsed, t) ==
  IF ~parsed.ok THEN Err(ERR_PARSE_FLOAT)
  ELSE Ok(Convert(V("float64", parsed.q), t))

\* The words of the switch in the bool target of ConvertToType.
TrueWords == {<< "y" >>, << "y", "e", "s" >>, << "1" >>}

FalseWords == {<< "n" >>, << "n", "o" >>, << "0" >>}

\* The bool target of ConvertToType for a string whose trimmed and
\* lower-cased text is a word of the switch.
ConvertToBool(str) == Ok(V("bool", str \in TrueWords))

\* The pointer source of ConvertToType whose pointee has the target type.
ConvertFromPointer(elem) == IF elem = NilR THEN Panic ELSE Ok(elem)

\* The string target of ConvertToType.
ConvertToString(r) ==
  IF r.t = "[]uint8"
  THEN Ok(V("string", [i \in 1..Len(r.v.e) |-> Chr(r.v.e[i])]))
  ELSE IF IsStringer(r.t)
  THEN (IF Kind(r.t) = "ptr" /\ r.v = << >> THEN Panic
        ELSE Ok(V("string", Sprintf(r))))
  ELSE Ok(V("string", Sprintf(r)))

\* Reflector.ConvertToType.
ConvertToType(r, t) ==
  LET kind == Kind(t)
      isPointer == kind = "ptr"
      pointerType == IF isPointer THEN ElemType(t) ELSE "invalid"
      isTime == kind = "struct" /\ t = "Time"
      isTimePointer == isPointer /\ Kind(pointerType) = "struct"
                         /\ pointerType = "Time"
  IN IF r = NilR \/ ~IsValid(r) THEN Panic
     ELSE IF t = r.t THEN Ok(r)
     ELSE IF IsSlice(r) /\ kind = "slice"
     THEN SliceConvertToType(r, ElemType(t))
     ELSE IF isPointer /\ r.t = pointerType THEN Ok(V(PtrTo(r.t), << r.v >>))
     ELSE IF IsPtr(r) /\ ~isPointer /\ ElemType(r.t) = t
     THEN ConvertFromPointer(Elem(r))
     ELSE IF (isTime \/ isTimePointer) /\ Kind(r.t) = "string"
     THEN (IF r.t # "string" THEN Panic
           ELSE ConvertToTime(isTime, ParseRFC3339(r.v)))
     ELSE IF kind = "bool" /\ IsString(r) /\ r.t # "string" THEN Panic
     ELSE IF kind = "bool" /\ IsString(r)
             /\ ToLower(TrimSpace(r.v)) \in TrueWords \cup FalseWords
     THEN ConvertToBool(ToLower(TrimSpace(r.v)))
     ELSE IF kind = "string" THEN ConvertToString(r)
     ELSE IF Kind(r.t) = "string" /\ IsNumericKind(kind)
     THEN (IF r.t # "string" THEN Panic
           ELSE ConvertToNumber(ParseFloat(r.v), t))
     ELSE ConvertGeneric(saveConvertToType(r, t))

\* Reflector.ConvertTo: the target is a reflect.Type or a sample value.
ConvertTo(r, targetVal) ==
  IF targetVal.t = "nil" THEN Err(ERR_INVALID_VALUE)
  ELSE ConvertToType(r, IF targetVal.t = "reflect.Type" THEN targetVal.v
                        ELSE targetVal.t)


(***************************************************************************)
(* Set and SetValue.  Both give the outcome and the storage afterwards.    *)
(***************************************************************************)

\* The end of Set once the value was converted: the error of the conversion
\* is returned; reflect's Set panics on a value that is not of the type of
\* the storage.
SetConverted(r, cur, converted) ==
  IF converted.st = "panic" THEN [out |-> Panic, store |-> cur]
  ELSE IF converted.st = "err"
  THEN [out |-> Err(converted.err), store |-> cur]
  ELSE IF converted.val.t # r.t THEN [out |-> Panic, store |-> cur]
  ELSE [out |-> Ok(NilIface), store |-> converted.val]

\* Reflector.Set(value, convert) on a receiver r whose storage holds cur.
Set(r, canSet, cur, value, doConvert) ==
  IF value = NilR THEN [out |-> Err(ERR_INVALID_VALUE), store |-> cur]
  ELSE IF ~IsValid(value) THEN [out |-> Err(ERR_INVALID_VALUE), store |-> cur]
  ELSE IF ~canSet THEN [out |-> Err(ERR_UNSETTABLE_VALUE), store |-> cur]
  ELSE IF value.t = r.t THEN [out |-> Ok(NilIface), store |-> value]
  ELSE IF ~doConvert THEN [out |-> Err(ERR_TYPE_MISMATCH), store |-> cur]
  ELSE SetConverted(r, cur, ConvertToType(value, r.t))

\* Reflector.SetValue(rawValue, convert).
SetValue(r, canSet, cur, rawValue, doConvert) ==
  IF rawValue.t = "nil" THEN [out |-> Err(ERR_INVALID_VALUE), store |-> cur]
  ELSE Set(r, canSet, cur, rawValue, doConvert)

(***************************************************************************)
(* The comparison engine.                                                  *)
(***************************************************************************)

Bool(b) == V("bool", b)

CmpOk(b) == Ok(Bool(b))

CmpErr(e) == [st |-> "err", err |-> e, val |-> Bool(FALSE)]

F0 == V("float64", QInt(0))

\* x == y of two floats.
QEq(x, y) ==
  /\ ~QIsNaN(x) /\ ~QIsNaN(y)
  /\ IF x.d = 0 /\ y.d = 0 THEN x.n = y.n ELSE x.n * y.d = y.n * x.d

compareStringValues(condition, a, b) ==
  CASE condition \in {"=", "=="} -> CmpOk(a = b)
    [] condition = "!=" -> CmpOk(a # b)
    [] condition = "like" -> CmpOk(Contains(a, b))
    [] condition = "<" -> CmpOk(StrLess(a, b))
    [] condition = "<=" -> CmpOk(~StrLess(b, a))
    [] condition = ">" -> CmpOk(StrLess(b, a))
    [] condition = ">=" -> CmpOk(~StrLess(a, b))
    [] OTHER -> Panic

\* compareFloat64Values with > in the place of >=.
compareFloat64Values_GreaterForGreaterEqual(condition, a, b) ==
  CASE condition \in {"=", "=="} -> CmpOk(QEq(a, b))
    [] condition = "!=" -> CmpOk(~QEq(a, b))
    [] condition = "like" ->
         CmpErr("invalid_filter_comparison: LIKE filter can only be used for string values, not numbers")
    [] condition = "<" -> CmpOk(QLess(a, b))
    [] condition = "<=" -> CmpOk(QLess(a, b) \/ QEq(a, b))
    [] condition = ">" -> CmpOk(QLess(b, a))
    [] condition = ">=" -> CmpOk(QLess(b, a))
    [] OTHER -> Panic

compareFloat64Values(condition, a, b) ==
  CASE condition \in {"=", "=="} -> CmpOk(QEq(a, b))
    [] condition = "!=" -> CmpOk(~QEq(a, b))
    [] condition = "like" ->
         CmpErr("invalid_filter_comparison: LIKE filter can only be used for string values, not numbers")
    [] condition = "<" -> CmpOk(QLess(a, b))
    [] condition = "<=" -> CmpOk(QLess(a, b) \/ QEq(a, b))
    [] condition = ">" -> CmpOk(QLess(b, a))
    [] condition = ">=" -> CmpOk(QLess(b, a) \/ QEq(a, b))
    [] OTHER -> Panic

\* time.Time.UnixNano().
UnixNano(t) == t.sec * 1000000000 + t.nsec

\* reflect.DeepEqual of two values.
DeepEqual(x, y) == x = y

\* NormalizeOperator without the default case of the switch.
NormalizeOperator_NoDefault(operator) ==
  IF operator = "==" THEN "=" ELSE operator

\* The operator check that opens CompareTo: "==" is read as "=", and an
\* unknown operator gives "".
NormalizeOperator(operator) ==
  CASE operator \in {"=", "!=", "like", "<", "<=", ">", ">="} -> operator
    [] operator = "==" -> "="
    [] OTHER -> ""

\* The numeric branch of CompareTo, given both conversions to float64.
CompareNumeric(operator, numA, numB) ==
  IF numA.st = "panic" THEN Panic
  ELSE IF numA.st = "err" THEN CmpErr("Conversion error: " \o numA.err)
  ELSE IF numB.st = "panic" THEN Panic
  ELSE IF numB.st = "err" THEN CmpErr("Conversion error: " \o numB.err)
  ELSE compareFloat64Values(operator, numA.val.v, numB.val.v)

\* The string branch of CompareTo, given the conversion of b to string; the
\* first operand is asserted to be a string (aVal.(string)).
CompareString(operator, a, strB) ==
  IF strB.st = "panic" THEN Panic
  ELSE IF strB.st = "err" THEN CmpErr("Conversion error: " \o strB.err)
  ELSE IF a.t # "string" THEN Panic
  ELSE compareStringValues(operator, a.v, strB.val.v)

\* The last branch of CompareTo, given the conversion of b to the type of a.
CompareEqual(operator, a, convB) ==
  IF operator \notin {"=", "!="} THEN CmpErr("impossible_comparison")
  ELSE IF convB.st = "panic" THEN Panic
  ELSE IF convB.st = "err" THEN CmpErr("Conversion error: " \o convB.err)
  ELSE IF operator = "=" THEN CmpOk(DeepEqual(a, convB.val))
  ELSE CmpOk(~DeepEqual(a, convB.val))

\* The dispatch of CompareTo on the kinds of the operands.
CompareConverted(a, b, typA, operator, converted) ==
  IF IsNumericKind(Kind(typA)) \/ IsNumericKind(Kind(b.t))
  THEN CompareNumeric(operator, converted[a]["float64"],
                      converted[b]["float64"])
  ELSE IF Kind(typA) = "string"
  THEN CompareString(operator, a, converted[b]["string"])
  ELSE CompareEqual(operator, a, converted[b][typA])

\* The conversions the branches make are a.ConvertTo(float64(0)),
\* b.ConvertTo(float64(0)), b.ConvertTo("") and b.ConvertToType(typA);
\* converted[x][t] is what the conversion of x to type t returns.
CompareKinds(a, b, typA, operator) ==
  CompareConverted(a, b, typA, operator,
                   [x \in {a, b} |->
                      [t \in {"float64", "string", typA} |->
                         ConvertToType(x, t)]])

\* The time.Duration step of CompareTo for the second operand: a duration
\* is replaced by the reflector of aVal.
CompareDurationB(a, b, typA, operator) ==
  CompareKinds(a, IF b.t = "Duration" THEN a ELSE b, typA, operator)

\* The time.Duration step of CompareTo for the first operand: a duration
\* becomes its float64.
CompareDurations(a, b, typA, operator) ==
  CompareDurationB(IF a.t = "Duration" THEN V("float64", QInt(a.v)) ELSE a,
                   b,
                   IF a.t = "Duration" THEN "float64" ELSE typA,
                   operator)

\* CompareTo from the point where both operands are prepared: a and b are
\* the operands after the zero substitution, the exchange and the pointer
\* steps, typA is the type read from the first operand before an exchange.
CompareOperands(a, b, typA, operator) ==
  IF Kind(typA) = "struct" /\ typA = "Time" /\ a.t # "Time" THEN Panic
  ELSE CompareDurations(
         IF typA = "Time" THEN V("float64", QInt(UnixNano(a.v))) ELSE a,
         IF b.t = "Time" THEN V("float64", QInt(UnixNano(b.v))) ELSE b,
         IF typA = "Time" THEN "float64" ELSE typA,
         operator)

\* Reflector.CompareTo(value, operator).  The value is a raw value, nil, or
\* a *Reflector (written V("*Reflector", the value it wraps)).
CompareTo(r, value, operator) ==
  LET op == NormalizeOperator(operator)
      a0 == IF ~IsValid(r) \/ DeepIsZero(r) THEN F0 ELSE r
      a1 == IF IsPtr(a0) THEN Elem(a0) ELSE a0
      typA == a1.t
      isReflector == value.t = "*Reflector"
      b0 == IF isReflector THEN value.v
            ELSE IF value.t = "nil" THEN Invalid ELSE value
      bZero == ~IsValid(b0) \/ DeepIsZero(b0)
      a2 == IF bZero THEN F0 ELSE a1
      b1 == IF bZero THEN a1 ELSE b0
      b2 == IF IsPtr(b1) THEN Elem(b1) ELSE b1
  IN IF op = "" THEN CmpErr(ERR_UNKNOWN_OPERATOR)
     ELSE IF r = NilR \/ ~IsValid(r) THEN Panic
     ELSE IF isReflector /\ (b0 = NilR \/ ~IsValid(b0)) THEN Panic
     ELSE CompareOperands(a2, b2, typA, op)


(***************************************************************************)
(* The inputs.                                                             *)
(***************************************************************************)

\* The texts: the words of the bool parsing, numeric literals, RFC3339
\* timestamps, and texts that are none of these.
Texts ==
  { << >>,
    << "y" >>,
    << "Y", "e", "s" >>,
    << " ", "y", "e", "s", " " >>,
    << "1" >>,
    << "n" >>,
    << "N", "O" >>,
    << "0" >>,
    << "m", "a", "y", "b", "e" >>,
    << "t", "r", "u", "e" >>,
    << "2", "2" >>,
    << "2", ".", "5" >>,
    << "-", "3" >>,
    << "1", "e", "2" >>,
    << "a", "b", "c" >>,
    << "a" >>,
    << "b" >>,
    << "3", "3", "3" >>,
    << "1", "9", "7", "0", "-", "0", "1", "-", "0", "1", "T", "0", "0", ":", "0", "0", ":", "0", "1", "Z" >>,
    << "2", "0", "1", "2", "-", "0", "5", "-", "2", "3", "T", "1", "8", ":", "3", "0", ":", "0", "0", ".", "0", "0", "0", "-", "0", "5", ":", "0", "0" >>,
    << "2", "0", "1", "2", "-", "1", "3", "-", "2", "3", "T", "1", "8", ":", "3", "0", ":", "0", "0", "Z" >>,
    << "2", "0", "1", "2", "-", "0", "5", "-", "2", "3", " ", "1", "8", ":", "3", "0", ":", "0", "0", "Z" >> }

Time1 == [zero |-> FALSE, sec |-> 1, nsec |-> 0, off |-> 0]

Time2 == [zero |-> FALSE, sec |-> 1, nsec |-> 5, off |-> 0]

Time2012 == [zero |-> FALSE, sec |-> 1337815800, nsec |-> 0, off |-> -18000]

Sl(es) == [nil |-> FALSE, e |-> es]

NilSlice == [nil |-> TRUE, e |-> << >>]

IntValues ==
  {V("int", n) : n \in {-3, 0, 1, 22, 65, 200, 300}}
    \cup {V("int8", n) : n \in {-3, 0, 22, 100}}
    \cup {V("uint8", n) : n \in {0, 22, 200}}
    \cup {V("int16", n) : n \in {-3, 0, 300}}

FloatValues ==
  {V("float64", q) : q \in {QInt(0), QInt(20), Q(5, 2), Q(-3, 2), QInt(300)}}

DurationValues == {V("Duration", n) : n \in {-5, 0, 22}}

StringValues ==
  {V("string", s) : s \in Texts}
    \cup {V("MyString", s) : s \in {<< >>, << "y" >>, << "2", "2" >>}}

BoolValues == {V(t, b) : t \in BoolTypes, b \in BOOLEAN}

TimeValues == {V("Time", t) : t \in {ZeroTime, Time1, Time2, Time2012}}

PtrValues ==
  {V("*int", p) : p \in {<< >>, << 0 >>, << 22 >>}}
    \cup {V("*string", p) : p \in {<< >>, << << >> >>, << << "2", "2" >> >>}}
    \cup {V("*Time", p) : p \in {<< >>, << ZeroTime >>, << Time1 >>}}

SliceValues ==
  {V("[]int", s) : s \in {NilSlice, Sl(<< >>), Sl(<< 1 >>), Sl(<< 65, 2 >>)}}
    \cup {V("[]uint8", s) : s \in {NilSlice, Sl(<< 104, 105 >>), Sl(<< 200 >>)}}
    \cup {V("[]string", s) :
            s \in {Sl(<< >>), Sl(<< << "a" >> >>),
                   Sl(<< << "2", "2" >>, << "x" >> >>)}}
    \cup {V("[]float64", s) : s \in {Sl(<< Q(5, 2) >>)}}
    \cup {V("[]interface", s) :
            s \in {Sl(<< >>), Sl(<< V("int", 0), V("int", 1) >>),
                   Sl(<< V("int", 1), V("string", << "a" >>) >>),
                   Sl(<< NilIface >>)}}

\* Every valid value of the model.
Values ==
  IntValues \cup FloatValues \cup DurationValues \cup StringValues
    \cup BoolValues \cup TimeValues \cup PtrValues \cup SliceValues

\* The receivers: a valid value, or the zero reflect.Value of Reflect(nil).
Receivers == Values \cup {Invalid}

\* The targets of ConvertTo: a sample value, nil, or a reflect.Type.
Samples ==
  {V(t, ZeroPayload(t)) : t \in Types} \cup {NilIface}
    \cup {V("reflect.Type", t) : t \in {"int", "string", "Time"}}

\* The receivers of Set: one value of each type.
SetReceivers ==
  {V(t, ZeroPayload(t)) : t \in Types} \cup {V("int", 22), Invalid}

\* The values handed to Set: a *Reflector of a value, of nothing, or nil.
SetArgs == Values \cup {Invalid, NilR}

\* The values handed to SetValue: a raw value or nil.
SetValueArgs == Values \cup {NilIface}

\* The operands of CompareTo.
CmpValues ==
  {V("int", n) : n \in {-3, 0, 22}} \cup {V("uint8", n) : n \in {0, 22, 200}}
    \cup {V("float64", q) :
            q \in {QInt(0), QInt(22), Q(5, 2), QNaN, QPosInf}}
    \cup {V("float32", q) : q \in {Q(5, 2), QNaN}}
    \cup DurationValues
    \cup {V("string", s) :
            s \in {<< >>, << "a" >>, << "a", "b", "c" >>, << "b" >>,
                   << "2", "2" >>, << "y" >>, << "N", "a", "N" >>,
                   << "n", "a", "n" >>, << "-", "I", "n", "f" >>}}
    \cup {V("MyString", << "a" >>)}
    \cup BoolValues
    \cup {V("Time", t) : t \in {ZeroTime, Time1, Time2}}
    \cup {V("*Time", p) : p \in {<< >>, << ZeroTime >>, << Time1 >>}}
    \cup {V("*int", p) : p \in {<< >>, << 0 >>, << 22 >>}}
    \cup {V("[]int", s) : s \in {NilSlice, Sl(<< >>), Sl(<< 1 >>)}}
    \cup {V("[]string", Sl(<< << "a" >> >>))}

CmpReceivers == CmpValues \cup {Invalid}

\* The right operands: a raw value, nil, or a *Reflector.
CmpArgs ==
  CmpValues \cup {NilIface}
    \cup {V("*Reflector", x) :
            x \in {V("int", 22), V("string", << "a" >>), Invalid,
                   V("float32", QNaN), V("string", << "N", "a", "N" >>)}}

(***************************************************************************)
(* Appending to a slice reflector.  The reflector is made from a slice or  *)
(* from a pointer to a slice; value is what it was made from and cur is    *)
(* that value as it is now.                                                *)
(***************************************************************************)

\* newSliceReflector: canAppend is set only for a pointer to a slice, and
\* sliceValue is the slice itself.
canAppend(value) == IsPtr(value)

sliceValue(cur) == IF IsSlice(cur) THEN cur ELSE Elem(cur)

\* SliceReflector.Type: the type of the items.
SliceItemType(cur) == ElemType(sliceValue(cur).t)

\* The first of the values Append stops at: a nil reflector or an invalid
\* one, whose Type() panics, or one of another type than the items; 0 when
\* there is none.
AppendStop(cur, values) ==
  LET stops == {i \in 1..Len(values) :
                  \/ values[i] = NilR
                  \/ ~IsValid(values[i])
                  \/ values[i].t # SliceItemType(cur)}
  IN IF stops = {} THEN 0
     ELSE CHOOSE i \in stops : \A j \in stops : i <= j

\* reflect.Append of one item to the slice.
AppendItem(slice, val) ==
  V(slice.t, [nil |-> FALSE, e |-> Append(slice.v.e, val.v)])

\* SliceReflector.Append: every item is appended to the slice as it was,
\* so the last one is what is stored; without items the new slice is the
\* invalid value, which Set refuses, and the error of Set is dropped.
SliceAppend(value, cur, values) ==
  IF ~canAppend(value)
  THEN [out |-> Err(ERR_CANT_APPEND_NOT_A_POINTER), store |-> cur]
  ELSE LET stop == AppendStop(cur, values)
           newSlice ==
             IF values = << >> THEN Invalid
             ELSE AppendItem(sliceValue(cur), values[Len(values)])
           \* Set on the addressable slice: an invalid value is refused,
           \* and one of the slice's own type is stored.
           set == IF ~IsValid(Reflect(newSlice))
                  THEN [out |-> Err(ERR_INVALID_VALUE),
                        store |-> sliceValue(cur)]
                  ELSE [out |-> Ok(NilIface), store |-> Reflect(newSlice)]
       IN IF stop # 0 /\ (values[stop] = NilR \/ ~IsValid(values[stop]))
          THEN [out |-> Panic, store |-> cur]
          ELSE IF stop # 0
          THEN [out |-> Err(ERR_TYPE_MISMATCH), store |-> cur]
          ELSE [out |-> Ok(NilIface), store |-> V(cur.t, << set.store.v >>)]

\* SliceReflector.AppendValue: one Append for each value, until one fails.
RECURSIVE AppendValue(_, _, _)
AppendValue(value, cur, values) ==
  IF values = << >> THEN [out |-> Ok(NilIface), store |-> cur]
  ELSE LET first == SliceAppend(value, cur, << Reflect(Head(values)) >>)
       IN IF first.out.st # "ok" THEN first
          ELSE AppendValue(value, first.store, Tail(values))

(***************************************************************************)
(* Indexes of a slice reflector.  Indexes count from 0, as in the source.  *)
(***************************************************************************)

\* SliceReflector.Len and SliceReflector.Cap.
SliceLen(cur) == Len(sliceValue(cur).v.e)

SliceCap(cur, extra) == SliceLen(cur) + extra

\* SliceReflector.Index: only an index past the end is turned away, and
\* reflect.Value.Index panics on a negative one.
SliceIndex(cur, i) ==
  IF i > SliceLen(cur) - 1 THEN Ok(NilR)
  ELSE IF i < 0 THEN Panic
  ELSE Ok(Index(sliceValue(cur), i + 1))

\* SliceReflector.IndexValue: Interface() of the item, or nil.
IndexValue(cur, i) ==
  LET v == SliceIndex(cur, i)
  IN IF v.st = "panic" THEN Panic
     ELSE IF v.val = NilR THEN Ok(NilIface)
     ELSE Ok(v.val)

\* The slice with other items, behind the pointer when there is one.
WithItems(cur, items) ==
  IF IsSlice(cur) THEN V(cur.t, [nil |-> FALSE, e |-> items])
  ELSE V(cur.t, << [nil |-> FALSE, e |-> items] >>)

\* s.Index(index).Set(value): Set turns a nil or invalid value away before
\* it touches its receiver, which is nil for an index past the end; an
\* item of a slice can be set.
SetItem(cur, i, value) ==
  LET item == SliceIndex(cur, i)
  IN IF item.st = "panic" THEN [out |-> Panic, store |-> cur]
     ELSE IF value = NilR \/ ~IsValid(value)
     THEN [out |-> Err(ERR_INVALID_VALUE), store |-> cur]
     ELSE IF item.val = NilR THEN [out |-> Panic, store |-> cur]
     ELSE IF value.t # item.val.t
     THEN [out |-> Err(ERR_TYPE_MISMATCH), store |-> cur]
     ELSE [out |-> Ok(NilIface),
           store |-> WithItems(cur, [sliceValue(cur).v.e
                                       EXCEPT ![i + 1] = value.v])]

\* SliceReflector.SetIndex: the index is checked against the capacity.
SetIndex(cur, extra, i, value) ==
  IF i > SliceCap(cur, extra) - 1
  THEN [out |-> Err(ERR_INDEX_OUT_OF_BOUNDS), store |-> cur]
  ELSE SetItem(cur, i, value)

\* SliceReflector.Swap: Interface() of both items, which panics for the nil
\* reflector of an index past the end, then two SetIndex calls.
Swap(cur, extra, i, j) ==
  IF i > SliceCap(cur, extra) - 1 \/ j > SliceCap(cur, extra) - 1
  THEN [out |-> Err(ERR_INDEX_OUT_OF_BOUNDS), store |-> cur]
  ELSE LET v1 == SliceIndex(cur, i)
           v2 == SliceIndex(cur, j)
       IN IF v1.st = "panic" \/ v1.val = NilR
             \/ v2.st = "panic" \/ v2.val = NilR
          THEN [out |-> Panic, store |-> cur]
          ELSE LET first == SetIndex(cur, extra, i, Reflect(v2.val))
               IN IF first.out.st # "ok" THEN first
                  ELSE SetIndex(first.store, extra, j, Reflect(v1.val))

\* The calls that are given an index, the indexes they are given and the
\* largest spare capacity.
IndexCalls == {"Index", "IndexValue", "SetIndex", "Swap"}

\* How far below zero the indexes go.
MaxBelow == 1

MinIndex == 0 - MaxBelow

MaxIndex == 3

Indexes == MinIndex..MaxIndex

MaxSpare == 1

\* The values SetIndex is given.
SetIndexArgs == {V("int", 7), V("string", << "b" >>), NilR, Invalid}

(***************************************************************************)
(* Sorting a slice reflector.  S is a struct type with an integer and a    *)
(* boolean field, struct{ Int int; Flag bool }.                            *)
(***************************************************************************)

\* reflect.Type.FieldByName: the type of a field of a struct type, "invalid"
\* when it has no such field.
FieldType(t, name) ==
  CASE t = "S" /\ name = "Int" -> "int"
    [] t = "S" /\ name = "Flag" -> "bool"
    [] t = "N" /\ name = "Int" -> "int"
    [] t = "N" /\ name = "Sub" -> "S"
    [] t = "N" /\ name = "Ptr" -> "*S"
    [] OTHER -> "invalid"

\* structReflector.HasField and structReflector.Field.
HasField(r, name) == FieldType(r.t, name) # "invalid"

Field(r, name) ==
  IF ~HasField(r, name) THEN NilR
  ELSE Reflect(V(FieldType(r.t, name), r.v[name]))

\* newStructReflector: the struct itself, for a struct reflector made from
\* a struct or from a pointer to one.
structItem(cur) == IF Kind(cur.t) = "struct" THEN cur ELSE Elem(cur)

\* The struct with another value in one field, behind the pointer when
\* there is one.
WithField(cur, name, val) ==
  IF Kind(cur.t) = "struct" THEN V(cur.t, [cur.v EXCEPT ![name] = val.v])
  ELSE V(cur.t, << [cur.v[1] EXCEPT ![name] = val.v] >>)

\* structReflector.SetField: Set on the field, which can be set when the
\* struct is reached through a pointer.
FieldSet(cur, name, set) ==
  IF set.out.st # "ok" THEN [out |-> set.out, store |-> cur]
  ELSE [out |-> set.out, store |-> WithField(cur, name, set.store)]

SetField(cur, name, value, doConvert) ==
  IF Field(structItem(cur), name) = NilR
  THEN [out |-> Err(ERR_UNKNOWN_FIELD), store |-> cur]
  ELSE FieldSet(cur, name,
                Set(Field(structItem(cur), name), IsPtr(cur),
                    Field(structItem(cur), name), value, doConvert))

\* structReflector.SetFieldValue.
SetFieldValue(cur, name, rawValue, doConvert) ==
  IF Reflect(rawValue) = NilR
  THEN [out |-> Err(ERR_INVALID_VALUE), store |-> cur]
  ELSE SetField(cur, name, Reflect(rawValue), doConvert)

\* The struct reflectors and the values their fields are given.
StructViews ==
  {V("S", [Int |-> 1, Flag |-> TRUE]),
   V("*S", << [Int |-> 1, Flag |-> TRUE] >>),
   V("*S", << [Int |-> 0, Flag |-> FALSE] >>)}

FieldArgs ==
  {V("int", 7), V("float64", [n |-> 20, d |-> 1]), V("string", << "2", "2" >>),
   V("string", << "x" >>), V("bool", FALSE),
   V("[]int", [nil |-> FALSE, e |-> << 1 >>]), NilIface}

(***************************************************************************)
(* FromMap.  N is struct{ Int int; Sub S; Ptr *S }.  A map is written as   *)
(* the function from its keys to its values; the range statement visits    *)
(* the keys in an order the run chooses, so FromMap has a set of results.  *)
(***************************************************************************)

MapType == "map[string]interface"

IsStruct(r) == IsValid(r) /\ Kind(r.t) = "struct"

IsStructPtr(r) ==
  IsValid(r) /\ Kind(r.t) = "ptr" /\ Kind(ElemType(r.t)) = "struct"

\* The type assertion rawVal.(map[string]interface{}): the map, or a nil
\* map when the value is of another type.
NestedMap(rawVal) ==
  IF rawVal.t = MapType THEN rawVal.v.e ELSE << >>

\* newStructReflector on a field: the struct of a struct field, the pointee
\* of a pointer field, a new zero struct when the pointer is nil.
NestedItem(fld) ==
  IF IsStruct(fld) THEN fld
  ELSE IF IsNil(fld)
  THEN V(ElemType(fld.t), ZeroPayload(ElemType(fld.t)))
  ELSE Elem(fld)

\* The fields of a struct field can be set when the field can; those of a
\* pointee always can.
NestedCanSet(fld, canSet) == IF IsStruct(fld) THEN canSet ELSE TRUE

\* The struct once the nested FromMap has run on the field.
NestedResult(cur, key, fld, r) ==
  [out |-> r.out,
   store |-> IF IsStruct(fld) THEN WithField(cur, key, r.store)
             ELSE WithField(cur, key, V(fld.t, << r.store.v >>))]

\* The end of the loop body of FromMap for a regular value: the error of Set
\* is wrapped with the name of the field.
FromMapSet(cur, key, set) ==
  IF set.out.st = "err"
  THEN [out |-> Err("Error in field " \o key \o ": " \o set.out.err),
        store |-> cur]
  ELSE IF set.out.st # "ok" THEN [out |-> set.out, store |-> cur]
  ELSE [out |-> set.out, store |-> WithField(cur, key, set.store)]

RECURSIVE FromMapFrom(_, _, _, _, _)
RECURSIVE FromMapKey(_, _, _, _, _)

\* The body of the loop of structReflector.FromMap for one key.  The nested
\* branch is taken for a map under a struct field and, the operators of its
\* condition binding as they do, for every value under a struct pointer
\* field.
FromMapKey(cur, canSet, key, rawVal, doConvert) ==
  IF Field(cur, key) = NilR THEN {[out |-> Ok(NilIface), store |-> cur]}
  ELSE IF Reflect(rawVal) = NilR \/ IsZero(Reflect(rawVal))
  THEN {[out |-> Ok(NilIface), store |-> cur]}
  ELSE IF (rawVal.t = MapType /\ IsStruct(Field(cur, key)))
            \/ IsStructPtr(Field(cur, key))
  THEN (IF IsStructPtr(Field(cur, key)) /\ IsNil(Field(cur, key)) /\ ~canSet
        THEN {[out |-> Err(ERR_UNSETTABLE_VALUE), store |-> cur]}
        ELSE {NestedResult(cur, key, Field(cur, key), r) :
                r \in FromMapFrom(NestedItem(Field(cur, key)),
                                  NestedCanSet(Field(cur, key), canSet),
                                  NestedMap(rawVal), DOMAIN NestedMap(rawVal),
                                  doConvert)})
  ELSE {FromMapSet(cur, key,
                   Set(Field(cur, key), canSet, Field(cur, key),
                       Reflect(rawVal), doConvert))}

\* The loop of structReflector.FromMap over the keys that are left: every
\* order of the keys is possible, and the first error ends the loop.
FromMapFrom(cur, canSet, data, keys, doConvert) ==
  IF keys = {} THEN {[out |-> Ok(NilIface), store |-> cur]}
  ELSE UNION {
         UNION {IF r.out.st # "ok" THEN {r}
                ELSE FromMapFrom(r.store, canSet, data, keys \ {k}, doConvert) :
                  r \in FromMapKey(cur, canSet, k, data[k], doConvert)} :
           k \in keys}

\* structReflector.FromMap on a struct reflector made from a struct or from
\* a pointer to one.
FromMap(view, data, doConvert) ==
  {[out |-> r.out,
    store |-> IF IsPtr(view) THEN V(view.t, << r.store.v >>) ELSE r.store] :
     r \in FromMapFrom(structItem(view), IsPtr(view), data.v.e,
                       DOMAIN data.v.e, doConvert)}

\* The structs FromMap is applied to, the values of the maps and the maps.
FromMapViews ==
  {V("*N", << [Int |-> 1, Sub |-> [Int |-> 1, Flag |-> TRUE], Ptr |-> << >>] >>),
   V("*N", << [Int |-> 0, Sub |-> [Int |-> 0, Flag |-> FALSE],
               Ptr |-> << [Int |-> 3, Flag |-> FALSE] >>] >>),
   V("N", [Int |-> 1, Sub |-> [Int |-> 1, Flag |-> TRUE], Ptr |-> << >>])}

MapOf(f) == V(MapType, [nil |-> FALSE, e |-> f])

NestedMaps ==
  {MapOf([k \in {"Int"} |-> V("int", 5)]),
   MapOf([k \in {"Int"} |-> V("string", << "x" >>)]),
   MapOf([k \in {"Flag", "Int"} |->
            IF k = "Int" THEN V("int", 6) ELSE V("string", << "x" >>)])}

MapValues ==
  {V("int", 7), V("int", 0), V("string", << "2", "2" >>), NilIface,
   V("S", [Int |-> 9, Flag |-> TRUE]),
   V("*S", << [Int |-> 9, Flag |-> TRUE] >>)} \cup NestedMaps

MapKeys == {"Int", "Sub", "Ptr", "None"}

MaxKeys == 2

FromMapArgs ==
  {V(MapType, [nil |-> TRUE, e |-> << >>])}
    \cup UNION {{MapOf(f) : f \in [keys -> MapValues]} :
                  keys \in {ks \in SUBSET MapKeys : Cardinality(ks) \in 1..MaxKeys}}

\* The answers of a caller's ordering function: true, false, or an error.
Answers == {"true", "false", "error"}

\* The ordering functions a caller passes to SortBy and SortByFieldFunc.
\* One asserts the type of its two arguments, as the functions of the tests
\* do (a.Interface().(int) < b.Interface().(int) is on = "int", lt = "true",
\* eq = gt = "false"), and answers by their order: lt when the first is the
\* smaller one, eq when they are equal, gt otherwise.
SortFuncs == [on : {"int", "bool"}, lt : Answers, eq : Answers, gt : Answers]

\* The function of a call that takes none.
NoFunc == [on |-> "int", lt |-> "false", eq |-> "false", gt |-> "false"]

\* A call of the caller's function f: the type assertion panics on an
\* argument of another type (false is the smaller bool).
sorterFunc(f, a, b) ==
  IF a.t # f.on \/ b.t # f.on THEN Panic
  ELSE LET answer == IF a.v = b.v THEN f.eq
                     ELSE IF (IF f.on = "int" THEN a.v < b.v ELSE b.v)
                     THEN f.lt
                     ELSE f.gt
       IN IF answer = "error" THEN Err("sorter error")
          ELSE Ok(V("bool", answer = "true"))

\* sliceSorter.Less, res being what the sorter's function returned for the
\* two items: on an error the error is stored in a copy of the sorter (the
\* receiver is a value) and true is returned.
Less(res) ==
  IF res.st = "panic" THEN Panic
  ELSE IF res.st = "err" THEN Ok(V("bool", TRUE))
  ELSE res

\* insertionSort of package sort, which sort.Sort runs on a slice of fewer
\* than seven items: item j moves down while it is less than the one
\* before it.  The items are exchanged with SliceReflector.Swap.
\* lessOf[a][b] is what Less answers for the items a and b.
RECURSIVE InsertItem(_, _, _, _)
InsertItem(cur, extra, j, lessOf) ==
  IF j < 1 THEN [out |-> Ok(NilIface), store |-> cur]
  ELSE LET less == lessOf[Index(sliceValue(cur), j + 1)]
                         [Index(sliceValue(cur), j)]
       IN IF less.st = "panic" THEN [out |-> Panic, store |-> cur]
          ELSE IF ~less.val.v THEN [out |-> Ok(NilIface), store |-> cur]
          ELSE InsertItem(Swap(cur, extra, j, j - 1).store, extra, j - 1,
                          lessOf)

RECURSIVE InsertionSort(_, _, _, _)
InsertionSort(cur, extra, i, lessOf) ==
  IF i > SliceLen(cur) - 1 THEN [out |-> Ok(NilIface), store |-> cur]
  ELSE LET inserted == InsertItem(cur, extra, i, lessOf)
       IN IF inserted.out.st = "panic" THEN inserted
          ELSE InsertionSort(inserted.store, extra, i + 1, lessOf)

\* The items of a slice, and their fields of one name.
ItemSet(cur) == {Index(sliceValue(cur), i) : i \in 1..SliceLen(cur)}

ItemFields(cur, name) == {Field(item, name) : item \in ItemSet(cur)}

\* SliceReflector.SortBy; funcOf[a][b] is what the caller's function
\* returns for a and b.  The error a call of it returned never reaches
\* sorter.err.
SortBy(cur, extra, funcOf) ==
  IF SliceLen(cur) < 1 THEN [out |-> Ok(NilIface), store |-> cur]
  ELSE InsertionSort(cur, extra, 1,
                     [a \in ItemSet(cur) |->
                        [b \in ItemSet(cur) |-> Less(funcOf[a][b])]])

\* SliceReflector.SortByFieldFunc; funcOf[a][b] is what the caller's
\* function returns for a and b: the sorter's function calls it on the
\* fields of the two items.
SortByFieldFunc(cur, extra, name, funcOf) ==
  IF SliceLen(cur) < 1 THEN [out |-> Ok(NilIface), store |-> cur]
  ELSE IF Kind(ElemType(sliceValue(cur).t)) # "struct"
  THEN [out |-> Err("Can't sort by field when slice items are neither "
                      \o "pointers to structs, structs or maps"),
        store |-> cur]
  ELSE IF ~HasField(Index(sliceValue(cur), 1), name)
  THEN [out |-> Err(ERR_UNKNOWN_FIELD), store |-> cur]
  ELSE InsertionSort(cur, extra, 1,
                     [a \in ItemSet(cur) |->
                        [b \in ItemSet(cur) |->
                           Less(funcOf[Field(a, name)][Field(b, name)])]])

\* SliceReflector.SortByField: SortByFieldFunc with CompareTo under "<" or
\* ">" as the function.
SortByField(cur, extra, name, asc) ==
  SortByFieldFunc(cur, extra, name,
                  [a \in ItemFields(cur, name) |->
                     [b \in ItemFields(cur, name) |->
                        CompareTo(a, b, IF asc THEN "<" ELSE ">")]])

\* newStructFieldSorter: the error it returns, "" when it returns a sorter.
\* cmpOf[a][b] is what CompareTo returns for the fields a and b under the
\* sorter's operator.  The slices sorted are slices of structs or of values
\* that are no structs; a slice of pointers is not among them.
newStructFieldSorter(cur, name, cmpOf) ==
  IF SliceLen(cur) < 1 THEN Err("empty_slice")
  ELSE IF Kind(ElemType(sliceValue(cur).t)) # "struct"
  THEN Err(ERR_NOT_A_STRUCT)
  ELSE IF \E item \in ItemSet(cur) : Field(item, name) = NilR
  THEN Err(ERR_UNKNOWN_FIELD)
  ELSE LET first == Field(Index(sliceValue(cur), 1), name)
       IN IF cmpOf[first][first].st = "panic" THEN Panic
          ELSE IF cmpOf[first][first].st = "err"
          THEN Err(ERR_UNCOMPARABLE_VALUES)
          ELSE Ok(NilIface)

\* SortStructSlice: sort.Sort with structFieldSorter, whose Less is
\* CompareTo on the fields of the two items and loses the error as
\* sliceSorter.Less does (the receiver is a value), and whose Swap is
\* SliceReflector.Swap.
SortStructSliceWith(cur, extra, name, cmpOf) ==
  IF newStructFieldSorter(cur, name, cmpOf) # Ok(NilIface)
  THEN [out |-> newStructFieldSorter(cur, name, cmpOf), store |-> cur]
  ELSE InsertionSort(cur, extra, 1,
                     [a \in ItemSet(cur) |->
                        [b \in ItemSet(cur) |->
                           Less(cmpOf[Field(a, name)][Field(b, name)])]])

SortStructSlice(cur, extra, name, asc) ==
  SortStructSliceWith(cur, extra, name,
                      [a \in ItemFields(cur, name) |->
                         [b \in ItemFields(cur, name) |->
                            CompareTo(a, b, IF asc THEN "<" ELSE ">")]])

\* The calls that are given a field name, and the names.
FieldCalls ==
  {"SortByField", "SortByFieldFunc", "SortStructSlice", "SetFieldValue"}

\* The calls that are given a direction.
DirectionCalls == {"SortByField", "SortStructSlice"}

\* The calls that are given an ordering function.
FuncCalls == {"SortBy", "SortByFieldFunc"}

FieldNames == {"Int", "Flag", "None"}

\* The longest slice that is sorted and the items it is made of.
MaxItems == 3

SortItems ==
  {[Int |-> 0, Flag |-> FALSE], [Int |-> 2, Flag |-> TRUE],
   [Int |-> 2, Flag |-> FALSE], [Int |-> 5, Flag |-> FALSE]}

SortViews ==
  {V("[]S", [nil |-> FALSE, e |-> items]) :
     items \in UNION {[1..n -> SortItems] : n \in 0..MaxItems}}
    \cup {V("[]int", [nil |-> FALSE, e |-> << 2, 1 >>])}

\* The slices SortBy is called on.
SortByViews ==
  {V("[]int", [nil |-> FALSE, e |-> items]) :
     items \in UNION {[1..n -> {0, 2, 5}] : n \in 0..MaxItems}}
    \cup {V("[]S", [nil |-> FALSE,
                    e |-> << [Int |-> 2, Flag |-> TRUE],
                             [Int |-> 0, Flag |-> FALSE] >>])}

\* The longest list of values of one call.
MaxAppend == 2

\* What the slice reflectors are made from, and the values appended.
SliceViews ==
  {V("[]int", [nil |-> FALSE, e |-> << >>]),
   V("[]int", [nil |-> FALSE, e |-> << 1 >>]),
   V("*[]int", << [nil |-> TRUE, e |-> << >>] >>),
   V("*[]int", << [nil |-> FALSE, e |-> << >>] >>),
   V("[]int", [nil |-> FALSE, e |-> << 1, 2 >>]),
   V("*[]int", << [nil |-> FALSE, e |-> << 1 >>] >>),
   V("*[]string", << [nil |-> FALSE, e |-> << << "a" >> >>] >>)}

AppendRaws ==
  {V("int", 2), V("int", 3), V("uint8", 2), V("string", << "b" >>), NilIface}

AppendItems == {Reflect(val) : val \in AppendRaws} \cup {Invalid}

ListsOf(items) ==
  UNION {[1..n -> items] : n \in 0..MaxAppend}

\* A call of Reflector.IsNil: it returns.
IsNilCall(r) == Ok(V("bool", IsNil(r)))

\* A call of Reflector.IsZero: the == of two interface values panics when
\* their type is not comparable.
IsZeroCall(r) ==
  IF ~IsNil(r) /\ ~(IsSlice(r) \/ IsArray(r) \/ IsMap(r))
       /\ ~Comparable(r.t)
  THEN Panic
  ELSE Ok(V("bool", IsZero(r)))

\* The receivers of IsNil and IsZero: every receiver of a conversion, and
\* arrays, maps and structs with a slice field.
ZeroReceivers ==
  Receivers
    \cup {V("Rec", ZeroRec),
          V("Rec", [items |-> [nil |-> FALSE, e |-> << 1 >>]]),
          V("[2]int", << 0, 0 >>), V("[2]int", << 1, 0 >>),
          V("map[string]int", [nil |-> TRUE, e |-> << >>]),
          V("map[string]int", [nil |-> FALSE, e |-> << >>])}

Operators == {"=", "==", "!=", "<", "<=", ">", ">=", "like", "~", ""}

NoOutcome == [st |-> "none", err |-> "", val |-> NilIface]

(***************************************************************************)
(* The specification.                                                      *)
(***************************************************************************)

Init ==
  /\ pc = "ready"
  /\ out = NoOutcome
  /\ back = NoOutcome
  /\ \/ /\ call = "ConvertToType"
        /\ recv \in Receivers /\ typ \in Types /\ platform \in Platforms
        /\ arg = NilIface /\ oper = "" /\ conv = FALSE /\ settable = FALSE
     \/ /\ call = "ConvertTo"
        /\ recv \in Receivers /\ arg \in Samples /\ platform \in Platforms
        /\ typ = "int" /\ oper = "" /\ conv = FALSE /\ settable = FALSE
     \/ /\ call = "Set"
        /\ recv \in SetReceivers /\ arg \in SetArgs /\ conv \in BOOLEAN
        /\ settable \in {s \in BOOLEAN : s => IsValid(recv)}
        /\ platform \in Platforms
        /\ typ = "int" /\ oper = ""
     \/ /\ call = "SetValue"
        /\ recv \in SetReceivers /\ arg \in SetValueArgs /\ conv \in BOOLEAN
        /\ settable \in {s \in BOOLEAN : s => IsValid(recv)}
        /\ platform \in Platforms
        /\ typ = "int" /\ oper = ""
     \/ /\ call \in {"IsNil", "IsZero"}
        /\ recv \in ZeroReceivers
        /\ arg = NilIface /\ oper = "" /\ conv = FALSE /\ settable = FALSE
        /\ typ = "int" /\ platform = "wrap"
     \/ /\ call = "Append"
        /\ recv \in SliceViews
        /\ arg \in {V("list", l) : l \in ListsOf(AppendItems)}
        /\ oper = "" /\ conv = FALSE /\ settable = FALSE
        /\ typ = "int" /\ platform = "wrap"
     \/ /\ call = "AppendValue"
        /\ recv \in SliceViews
        /\ arg \in {V("list", l) : l \in ListsOf(AppendRaws)}
        /\ oper = "" /\ conv = FALSE /\ settable = FALSE
        /\ typ = "int" /\ platform = "wrap"
     \/ /\ call \in {"Index", "IndexValue", "Swap"}
        /\ recv \in SliceViews
        /\ arg = NilIface /\ oper = "" /\ conv = FALSE /\ settable = FALSE
        /\ typ = "int" /\ platform = "wrap"
     \/ /\ call = "SetIndex"
        /\ recv \in SliceViews /\ arg \in SetIndexArgs
        /\ oper = "" /\ conv = FALSE /\ settable = FALSE
        /\ typ = "int" /\ platform = "wrap"
     \/ /\ call = "SortByField"
        /\ recv \in SortViews
        /\ arg = NilIface /\ oper = "" /\ conv = FALSE /\ settable = FALSE
        /\ typ = "int" /\ platform = "wrap"
     \/ /\ call = "SortStructSlice"
        /\ recv \in SortViews
        /\ arg = NilIface /\ oper = "" /\ conv = FALSE /\ settable = FALSE
        /\ typ = "int" /\ platform = "wrap"
     \/ /\ call = "SortBy"
        /\ recv \in SortByViews
        /\ arg = NilIface /\ oper = "" /\ conv = FALSE /\ settable = FALSE
        /\ typ = "int" /\ platform = "wrap"
     \/ /\ call = "SortByFieldFunc"
        /\ recv \in SortViews
        /\ arg = NilIface /\ oper = "" /\ conv = FALSE /\ settable = FALSE
        /\ typ = "int" /\ platform = "wrap"
     \/ /\ call = "SetFieldValue"
        /\ recv \in StructViews /\ arg \in FieldArgs /\ conv \in BOOLEAN
        /\ oper = "" /\ settable = FALSE
        /\ typ = "int" /\ platform \in Platforms
     \/ /\ call = "FromMap"
        /\ recv \in FromMapViews /\ arg \in FromMapArgs /\ conv \in BOOLEAN
        /\ oper = "" /\ settable = FALSE
        /\ typ = "int" /\ platform = "wrap"
     \/ /\ call = "CompareTo"
        /\ recv \in CmpReceivers /\ arg \in CmpArgs /\ oper \in Operators
        /\ platform = "wrap"
        /\ typ = "int" /\ conv = FALSE /\ settable = FALSE
  /\ store = recv
  /\ spare \in IF call \in IndexCalls /\ ~sliceValue(recv).v.nil
               THEN 0..MaxSpare ELSE {0}
  /\ index \in IF call \in IndexCalls THEN Indexes ELSE {0}
  /\ index2 \in IF call = "Swap" THEN Indexes ELSE {0}
  /\ field \in IF call \in FieldCalls THEN FieldNames ELSE {""}
  /\ ascending \in IF call \in DirectionCalls THEN BOOLEAN ELSE {FALSE}
  /\ sortFunc \in IF call \in FuncCalls THEN SortFuncs ELSE {NoFunc}

DoConvertToType ==
  /\ pc = "ready" /\ call = "ConvertToType"
  /\ out' = ConvertToType(recv, typ)
  /\ pc' = "done"
  /\ UNCHANGED << sortFunc, field, ascending, spare, index, index2,
                  call, recv, settable, store, arg, typ, oper, conv,
                  platform, back >>

DoConvertTo ==
  /\ pc = "ready" /\ call = "ConvertTo"
  /\ out' = ConvertTo(recv, arg)
  /\ pc' = "done"
  /\ UNCHANGED << sortFunc, field, ascending, spare, index, index2,
                  call, recv, settable, store, arg, typ, oper, conv,
                  platform, back >>

\* The value ConvertToType returned is wrapped and converted to the type of
\* the value it came from.
DoConvertBack ==
  /\ pc = "done" /\ call = "ConvertToType"
  /\ out.st = "ok" /\ out.val.t \in Types
  /\ back' = ConvertToType(Reflect(out.val), recv.t)
  /\ pc' = "back"
  /\ UNCHANGED << sortFunc, field, ascending, spare, index, index2,
                  call, recv, settable, store, arg, typ, oper, conv,
                  platform, out >>

DoSet ==
  /\ pc = "ready" /\ call = "Set"
  /\ \E res \in {Set(recv, settable, store, arg, conv)} :
       out' = res.out /\ store' = res.store
  /\ pc' = "done"
  /\ UNCHANGED << sortFunc, field, ascending, spare, index, index2,
                  call, recv, settable, arg, typ, oper, conv, platform, back >>

DoSetValue ==
  /\ pc = "ready" /\ call = "SetValue"
  /\ \E res \in {SetValue(recv, settable, store, arg, conv)} :
       out' = res.out /\ store' = res.store
  /\ pc' = "done"
  /\ UNCHANGED << sortFunc, field, ascending, spare, index, index2,
                  call, recv, settable, arg, typ, oper, conv, platform, back >>

DoCompareTo ==
  /\ pc = "ready" /\ call = "CompareTo"
  /\ out' = CompareTo(recv, arg, oper)
  /\ pc' = "done"
  /\ UNCHANGED << sortFunc, field, ascending, spare, index, index2,
                  call, recv, settable, store, arg, typ, oper, conv,
                  platform, back >>

\* The operands of the comparison change places: the value is wrapped and
\* compared to the value the receiver wraps.
DoCompareSwapped ==
  /\ pc = "done" /\ call = "CompareTo"
  /\ recv \in CmpValues /\ arg \in CmpValues
  /\ back' = CompareTo(Reflect(arg), recv, oper)
  /\ pc' = "back"
  /\ UNCHANGED << sortFunc, field, ascending, spare, index, index2,
                  call, recv, settable, store, arg, typ, oper, conv,
                  platform, out >>

DoIsNil ==
  /\ pc = "ready" /\ call = "IsNil"
  /\ out' = IsNilCall(recv)
  /\ pc' = "done"
  /\ UNCHANGED << sortFunc, field, ascending, spare, index, index2,
                  call, recv, settable, store, arg, typ, oper, conv,
                  platform, back >>

DoIsZero ==
  /\ pc = "ready" /\ call = "IsZero"
  /\ out' = IsZeroCall(recv)
  /\ pc' = "done"
  /\ UNCHANGED << sortFunc, field, ascending, spare, index, index2,
                  call, recv, settable, store, arg, typ, oper, conv,
                  platform, back >>

DoAppend ==
  /\ pc = "ready" /\ call = "Append"
  /\ \E res \in {SliceAppend(recv, store, arg.v)} :
       out' = res.out /\ store' = res.store
  /\ pc' = "done"
  /\ UNCHANGED << sortFunc, field, ascending, spare, index, index2,
                  call, recv, settable, arg, typ, oper, conv, platform,
                  back >>

DoAppendValue ==
  /\ pc = "ready" /\ call = "AppendValue"
  /\ \E res \in {AppendValue(recv, store, arg.v)} :
       out' = res.out /\ store' = res.store
  /\ pc' = "done"
  /\ UNCHANGED << sortFunc, field, ascending, spare, index, index2,
                  call, recv, settable, arg, typ, oper, conv, platform,
                  back >>

DoIndex ==
  /\ pc = "ready" /\ call = "Index"
  /\ out' = SliceIndex(store, index)
  /\ pc' = "done"
  /\ UNCHANGED << sortFunc, field, ascending, spare, index, index2,
                  call, recv, settable, store, arg, typ, oper, conv, platform,
                  back >>

DoIndexValue ==
  /\ pc = "ready" /\ call = "IndexValue"
  /\ out' = IndexValue(store, index)
  /\ pc' = "done"
  /\ UNCHANGED << sortFunc, field, ascending, spare, index, index2,
                  call, recv, settable, store, arg, typ, oper, conv, platform,
                  back >>

DoSetIndex ==
  /\ pc = "ready" /\ call = "SetIndex"
  /\ \E res \in {SetIndex(store, spare, index, arg)} :
       out' = res.out /\ store' = res.store
  /\ pc' = "done"
  /\ UNCHANGED << sortFunc, field, ascending, spare, index, index2,
                  call, recv, settable, arg, typ, oper, conv, platform,
                  back >>

DoSwap ==
  /\ pc = "ready" /\ call = "Swap"
  /\ \E res \in {Swap(store, spare, index, index2)} :
       out' = res.out /\ store' = res.store
  /\ pc' = "done"
  /\ UNCHANGED << sortFunc, field, ascending, spare, index, index2,
                  call, recv, settable, arg, typ, oper, conv, platform,
                  back >>

DoSortByField ==
  /\ pc = "ready" /\ call = "SortByField"
  /\ \E res \in {SortByField(store, spare, field, ascending)} :
       out' = res.out /\ store' = res.store
  /\ pc' = "done"
  /\ UNCHANGED << sortFunc, field, ascending, spare, index, index2,
                  call, recv, settable, arg, typ, oper, conv, platform,
                  back >>

DoSortStructSlice ==
  /\ pc = "ready" /\ call = "SortStructSlice"
  /\ \E res \in {SortStructSlice(store, spare, field, ascending)} :
       out' = res.out /\ store' = res.store
  /\ pc' = "done"
  /\ UNCHANGED << sortFunc, field, ascending, spare, index, index2,
                  call, recv, settable, arg, typ, oper, conv, platform,
                  back >>

DoSortBy ==
  /\ pc = "ready" /\ call = "SortBy"
  /\ \E res \in {SortBy(store, spare,
                         [a \in ItemSet(store) |->
                            [b \in ItemSet(store) |->
                               sorterFunc(sortFunc, a, b)]])} :
       out' = res.out /\ store' = res.store
  /\ pc' = "done"
  /\ UNCHANGED << sortFunc, field, ascending, spare, index, index2,
                  call, recv, settable, arg, typ, oper, conv, platform,
                  back >>

DoSortByFieldFunc ==
  /\ pc = "ready" /\ call = "SortByFieldFunc"
  /\ \E res \in {SortByFieldFunc(store, spare, field,
                                  [a \in ItemFields(store, field) |->
                                     [b \in ItemFields(store, field) |->
                                        sorterFunc(sortFunc, a, b)]])} :
       out' = res.out /\ store' = res.store
  /\ pc' = "done"
  /\ UNCHANGED << sortFunc, field, ascending, spare, index, index2,
                  call, recv, settable, arg, typ, oper, conv, platform,
                  back >>

DoSetFieldValue ==
  /\ pc = "ready" /\ call = "SetFieldValue"
  /\ \E res \in {SetFieldValue(store, field, arg, conv)} :
       out' = res.out /\ store' = res.store
  /\ pc' = "done"
  /\ UNCHANGED << sortFunc, field, ascending, spare, index, index2,
                  call, recv, settable, arg, typ, oper, conv, platform,
                  back >>

DoFromMap ==
  /\ pc = "ready" /\ call = "FromMap"
  /\ \E res \in FromMap(store, arg, conv) :
       out' = res.out /\ store' = res.store
  /\ pc' = "done"
  /\ UNCHANGED << sortFunc, field, ascending, spare, index, index2,
                  call, recv, settable, arg, typ, oper, conv, platform,
                  back >>

Next ==
  \/ DoConvertToType
  \/ DoConvertTo
  \/ DoConvertBack
  \/ DoSet
  \/ DoSetValue
  \/ DoCompareTo
  \/ DoCompareSwapped
  \/ DoIsNil
  \/ DoIsZero
  \/ DoAppend
  \/ DoAppendValue
  \/ DoIndex
  \/ DoIndexValue
  \/ DoSetIndex
  \/ DoSwap
  \/ DoSortByField
  \/ DoSortStructSlice
  \/ DoSortBy
  \/ DoSortByFieldFunc
  \/ DoSetFieldValue
  \/ DoFromMap

Spec == Init /\ [][Next]_vars


(***************************************************************************)
(* Properties of the conversion engine.                                    *)
(***************************************************************************)

\* ConvertToType or ConvertTo was called and is over.
Converted == pc # "ready" /\ call \in {"ConvertToType", "ConvertTo"}

\* ConvertToType was called on a source of string kind and is over.
TextConverted ==
  pc # "ready" /\ call = "ConvertToType" /\ Kind(recv.t) = "string"

\* C1: for every wrapped source value (nil pointers, nil slices and the
\* absent value included) and every target type, ConvertToType and
\* ConvertTo return a converted value or an error; no pair makes them panic.
C1_ConvertNeverPanics == Converted => out.st \in {"ok", "err"}

\* C2: whenever ConvertToType returns without error, the value it returns
\* has exactly the target type, named string and bool types, pointer targets
\* and slice targets of an empty source slice included.
C2_ResultHasTargetType ==
  (pc # "ready" /\ call = "ConvertToType" /\ out.st = "ok")
    => out.val.t = typ

\* C3: a source of string kind converted to time.Time or *time.Time is
\* parsed as RFC3339: the parsed instant (a pointer to it for the pointer
\* target) when the text parses, and the invalid-time error without a value
\* for every text that does not parse.
C3_TextToTime ==
  (TextConverted /\ typ \in {"Time", "*Time"})
    => IF ParseRFC3339(recv.v).ok
       THEN out = Ok(V(typ, IF typ = "Time" THEN ParseRFC3339(recv.v).time
                            ELSE << ParseRFC3339(recv.v).time >>))
       ELSE out = Err(ERR_INVALID_TIME)

\* C4: a source of string kind converted to a bool target is trimmed and
\* lower-cased; the result is true for exactly y, yes, 1 and false for
\* exactly n, no, 0; every other text gives the unconvertible-types error of
\* the generic step and no boolean.
C4_TextToBool ==
  (TextConverted /\ Kind(typ) = "bool")
    => IF ToLower(TrimSpace(recv.v))
            \in {<< "y" >>, << "y", "e", "s" >>, << "1" >>}
       THEN out.st = "ok" /\ out.val.v = TRUE
       ELSE IF ToLower(TrimSpace(recv.v))
                 \in {<< "n" >>, << "n", "o" >>, << "0" >>}
       THEN out.st = "ok" /\ out.val.v = FALSE
       ELSE out = Err(ERR_UNCONVERTABLE_TYPES)

\* C5: every valid source value converted to a target of string kind
\* succeeds with no error and returns text: the bytes as text for a byte
\* slice; the step never fails and never panics.
C5_ToTextSucceeds ==
  (pc # "ready" /\ call = "ConvertToType" /\ IsValid(recv)
     /\ Kind(typ) = "string")
    => /\ out.st = "ok"
       /\ Kind(out.val.t) = "string"
       /\ (recv.t = "[]uint8"
             => out.val.v = [i \in 1..Len(recv.v.e) |-> Chr(recv.v.e[i])])

\* C6: a source of string kind converted to a numeric kind gives the text
\* parsed as a float64 and converted to that kind when the text is a numeric
\* literal ("22" to int gives 22, and 22 to string gives "22"), and the parse
\* error without a value for every other text.
C6_TextToNumber ==
  /\ (TextConverted /\ IsNumericKind(Kind(typ)))
       => IF ParseFloat(recv.v).ok
          THEN out = Ok(Convert(V("float64", ParseFloat(recv.v).q), typ))
          ELSE out = Err(ERR_PARSE_FLOAT)
  /\ (TextConverted /\ recv.v = << "2", "2" >> /\ typ = "int")
       => out = Ok(V("int", 22))
  /\ (pc # "ready" /\ call = "ConvertToType" /\ recv = V("int", 22)
        /\ typ = "string")
       => out = Ok(V("string", << "2", "2" >>))

\* No special case of ConvertToType applies to a source and a target: the
\* source is valid, the types differ, they are not two slices, neither is
\* the pointer to the other, the pair is not a text with a time, a bool or
\* a number as target, and the target is not of string kind.
GenericCase(src, t) ==
  /\ IsValid(src)
  /\ src.t # t
  /\ ~(Kind(src.t) = "slice" /\ Kind(t) = "slice")
  /\ ~(Kind(t) = "ptr" /\ ElemType(t) = src.t)
  /\ ~(Kind(src.t) = "ptr" /\ ElemType(src.t) = t)
  /\ ~(Kind(src.t) = "string"
         /\ (t \in {"Time", "*Time"} \/ Kind(t) = "bool"
               \/ IsNumericKind(Kind(t))))
  /\ Kind(t) # "string"

\* C7: when no special case applies, ConvertToType runs reflect's
\* conversion with its panic recovered: a conversion that panics or gives
\* nil returns the unconvertible-types error and a nil value, and a legal
\* one (float64 20.0 to int) returns its result with no error.
C7_GenericFallback ==
  /\ (pc # "ready" /\ call = "ConvertToType" /\ GenericCase(recv, typ))
       => IF ConvertibleTo(recv.t, typ)
          THEN out = Ok(Convert(recv, typ)) /\ out.val.t = typ
          ELSE out = Err(ERR_UNCONVERTABLE_TYPES) /\ out.val = NilIface
  /\ (pc # "ready" /\ call = "ConvertToType" /\ recv = V("float64", QInt(20))
        /\ typ = "int")
       => out = Ok(V("int", 20))

\* A bool converted to int: the conversion panics inside saveConvertToType
\* and the call returns the error.
C7_Witness ==
  /\ pc = "done" /\ call = "ConvertToType"
  /\ recv = V("bool", TRUE) /\ typ = "int"
  /\ GenericCase(recv, typ) /\ ~ConvertibleTo(recv.t, typ)
  /\ out = Err(ERR_UNCONVERTABLE_TYPES)

\* The integer m is representable in an integer kind.
Representable(m, kind) ==
  IF Bits(kind) > 16 THEN TRUE
  ELSE IF IsUnsignedKind(kind) THEN 0 <= m /\ m < Pow2(Bits(kind))
  ELSE -Pow2(Bits(kind) - 1) <= m /\ m < Pow2(Bits(kind) - 1)

\* C8: for integer kinds K1 and K2 and every m representable in both,
\* converting m from K1 to K2 and the result back to K1 gives m again, with
\* no error at either step.
C8_IntegerRoundTrip ==
  (call = "ConvertToType" /\ recv.t \in IntTypes /\ typ \in IntTypes
     /\ Representable(recv.v, Kind(typ)))
    => /\ pc # "ready" => out = Ok(V(typ, recv.v))
       /\ pc = "back" => back = Ok(recv)

\* The int -3 went to int8 and came back.
C8_Witness ==
  /\ pc = "back" /\ call = "ConvertToType"
  /\ recv = V("int", -3) /\ typ = "int8"
  /\ out = Ok(V("int8", -3)) /\ back = Ok(V("int", -3))

(***************************************************************************)
(* Properties of Set and of CompareTo.                                     *)
(***************************************************************************)

\* C9: Set(value, convert) returns the unsettable error when the wrapper is
\* not addressable, the type-mismatch error when the type of the value
\* differs and convert is off, and the error of the conversion when convert
\* is on and the conversion fails; on each error the storage keeps its
\* value, and on success the storage holds the value, converted if need be.
C9_SetOutcomes ==
  (pc = "done" /\ call \in {"Set", "SetValue"})
    => /\ out.st = "err" => store = recv
       /\ arg \in Values
            => /\ out.st \in {"ok", "err"}
               /\ ~settable => out = Err(ERR_UNSETTABLE_VALUE)
               /\ (settable /\ arg.t # recv.t /\ ~conv)
                    => out = Err(ERR_TYPE_MISMATCH)
               /\ (settable /\ arg.t # recv.t /\ conv
                     /\ ConvertToType(arg, recv.t).st = "err")
                    => out = Err(ConvertToType(arg, recv.t).err)
               /\ out.st = "ok"
                    => /\ store.t = recv.t
                       /\ arg.t = recv.t => store = arg
                       /\ arg.t # recv.t
                            => Ok(store) = ConvertToType(arg, recv.t)

\* The operators CompareTo knows.
KnownOperators == {"=", "==", "!=", "<", "<=", ">", ">=", "like"}

\* C10: CompareTo with an operator outside =, ==, !=, <, <=, >, >=, like
\* returns the unknown-operator error for every pair of operands, comparable
\* or not, and CompareTo with "==" returns the boolean and the error it
\* returns with "=".
C10_Operators ==
  (pc = "done" /\ call = "CompareTo")
    => /\ oper \notin KnownOperators
            => out = [st |-> "err", err |-> ERR_UNKNOWN_OPERATOR,
                      val |-> V("bool", FALSE)]
       /\ oper = "==" => out = CompareTo(recv, arg, "=")

\* A slice was compared to an int with the operator "~".
C10_Witness ==
  /\ pc = "done" /\ call = "CompareTo"
  /\ oper = "~" /\ recv = V("[]int", Sl(<< 1 >>)) /\ arg = V("int", 22)
  /\ out.st = "err" /\ out.err = ERR_UNKNOWN_OPERATOR

(***************************************************************************)
(* Properties of the comparison engine.                                    *)
(***************************************************************************)

\* The numeric types that are no time.Duration.
PlainNumericTypes == (IntTypes \ {"Duration"}) \cup FloatTypes \cup {"float32"}

\* The operators of equality and order.
OrderOperators == {"=", "!=", "<", "<=", ">", ">="}

\* float64(val) of a value of a numeric kind.
AsFloat(val) == IF IsFloatKind(Kind(val.t)) THEN val.v ELSE QInt(val.v)

\* The sign of x - y for two floats that are not NaN: of the numerators for
\* two infinities, of the cross product otherwise.
Sign(x, y) ==
  LET diff == IF x.d = 0 /\ y.d = 0 THEN x.n - y.n
              ELSE x.n * y.d - y.n * x.d
  IN IF diff < 0 THEN 0 - 1 ELSE IF diff > 0 THEN 1 ELSE 0

\* The truth value of x op y for two floats: with a NaN only != is true.
Holds(op, x, y) ==
  IF (x.d = 0 /\ x.n = 0) \/ (y.d = 0 /\ y.n = 0) THEN op = "!="
  ELSE CASE op = "=" -> Sign(x, y) = 0
         [] op = "!=" -> Sign(x, y) # 0
         [] op = "<" -> Sign(x, y) < 0
         [] op = "<=" -> Sign(x, y) <= 0
         [] op = ">" -> Sign(x, y) > 0
         [] op = ">=" -> Sign(x, y) >= 0

\* CompareTo was called and is over.
Compared == pc # "ready" /\ call = "CompareTo"

\* C11: for numeric operands a and b of any numeric kinds, zero values
\* included, and every operator of =, !=, <, <=, >, >=, CompareTo(a, b, op)
\* returns without error the truth value of float64(a) op float64(b), a on
\* the left and b on the right.
C11_NumericCompare ==
  (Compared /\ recv.t \in PlainNumericTypes /\ arg.t \in PlainNumericTypes
     /\ oper \in OrderOperators)
    => out = Ok(V("bool", Holds(oper, AsFloat(recv), AsFloat(arg))))

\* C12: equality is symmetric: for all values a and b of any kinds,
\* CompareTo(a, b, "=") and CompareTo(b, a, "=") give the same boolean, or
\* both fail.
C12_EqualitySymmetric ==
  (pc = "back" /\ call = "CompareTo" /\ oper = "=")
    => \/ out.st = "ok" /\ back.st = "ok" /\ out.val = back.val
       \/ out.st # "ok" /\ back.st # "ok"

\* C13: comparison is reflexive: for every value a of any kind,
\* CompareTo(a, a, op) is true for op of =, <=, >= and false for op of
\* !=, <, >.
C13_Reflexive ==
  (Compared /\ recv = arg /\ oper \in OrderOperators)
    => out = Ok(V("bool", oper \in {"=", "<=", ">="}))

\* The truth value of a op b for two texts.
TextHolds(op, a, b) ==
  CASE op = "=" -> a = b
    [] op = "!=" -> a # b
    [] op = "like" -> Contains(a, b)
    [] op = "<" -> StrLess(a, b)
    [] op = "<=" -> a = b \/ StrLess(a, b)
    [] op = ">" -> StrLess(b, a)
    [] op = ">=" -> a = b \/ StrLess(b, a)

\* C14: for every pair of operands a and b of string kind, the empty text
\* included, CompareTo(a, b, "like") returns without error true exactly
\* when b is a substring of a, and <, <=, >, >= compare a with b
\* lexicographically.
C14_TextCompare ==
  (Compared /\ Kind(recv.t) = "string" /\ Kind(arg.t) = "string"
     /\ oper \in {"like", "<", "<=", ">", ">="})
    => out = Ok(V("bool", TextHolds(oper, recv.v, arg.v)))

\* The errors of a comparison that has no meaning for its operands.
InvalidComparisonErrors ==
  { "invalid_filter_comparison: LIKE filter can only be used for string values, not numbers",
    "impossible_comparison" }

\* C15: CompareTo with the operator "like" fails with an invalid-comparison
\* error, and never returns true, whenever the operands are not texts: for
\* every pair of numeric operands and for every pair of composite operands
\* (slices, structs).
C15_LikeNeedsText ==
  (Compared /\ oper = "like"
     /\ \/ IsNumericKind(Kind(recv.t)) /\ IsNumericKind(Kind(arg.t))
        \/ Kind(recv.t) \in {"slice", "struct"}
             /\ Kind(arg.t) \in {"slice", "struct"})
    => /\ out.st = "err"
       /\ out.err \in InvalidComparisonErrors
       /\ out.val = V("bool", FALSE)

\* The outcome of a conversion with its value read as a value of exactly
\* the type t: the slice a *SliceReflector wraps, the payload under t.
AsExactType(converted, t) ==
  IF converted.st # "ok" THEN converted
  ELSE IF converted.val.t = "*SliceReflector" THEN Ok(converted.val.v)
  ELSE Ok(V(t, converted.val.v))

\* C16: when neither operand is numeric and the left operand is not a text,
\* CompareTo with "=" returns the structural equality of the left operand
\* and the right operand converted to the exact type of the left operand,
\* "!=" returns its negation, and each of <, <=, >, >= fails with the
\* invalid-comparison error and the boolean false.
C16_EqualityOnly ==
  (Compared /\ recv \in CmpValues /\ arg \in CmpValues
     /\ ~DeepIsZero(recv) /\ ~DeepIsZero(arg)
     /\ Kind(recv.t) \in {"bool", "slice"}
     /\ Kind(arg.t) \in {"bool", "slice", "string"}
     /\ oper \in OrderOperators)
    => IF oper \in {"<", "<=", ">", ">="}
       THEN out = [st |-> "err", err |-> "impossible_comparison",
                   val |-> V("bool", FALSE)]
       ELSE IF ConvertToType(arg, recv.t).st = "err"
       THEN out.st = "err" /\ out.val = V("bool", FALSE)
       ELSE out = Ok(V("bool",
                       (oper = "=")
                         <=> (AsExactType(ConvertToType(arg, recv.t),
                                          recv.t) = Ok(recv))))

\* The time.Time an operand stands for: the value, or the value a pointer
\* that is not nil points to.
TimeOf(val) == IF val.t = "*Time" THEN val.v[1] ELSE val.v

\* The operand is a time.Time or a *time.Time that is not nil.
IsTimeOperand(val) ==
  val.t = "Time" \/ (val.t = "*Time" /\ val.v # << >>)

\* C17: for all time operands a and b, each a time.Time or a pointer to
\* one, the zero time included, CompareTo(a, b, op) returns without error
\* the truth value of nanos(a) op nanos(b), nanos being UnixNano (which Go
\* leaves undefined for the zero time: there only the return is required).
C17_TimeCompare ==
  (Compared /\ IsTimeOperand(recv) /\ IsTimeOperand(arg)
     /\ oper \in OrderOperators)
    => /\ out.st = "ok"
       /\ (~TimeOf(recv).zero /\ ~TimeOf(arg).zero)
            => out.val = V("bool", Holds(oper, QInt(UnixNano(TimeOf(recv))),
                                         QInt(UnixNano(TimeOf(arg)))))

\* C18: a time.Duration takes part in CompareTo with its own magnitude: for
\* every numeric or duration a and every duration b that is not zero,
\* CompareTo(a, b, op) is magnitude(a) op magnitude(b), and likewise when
\* the duration is the first operand.
C18_DurationCompare ==
  (Compared /\ IsNumericKind(Kind(recv.t)) /\ IsNumericKind(Kind(arg.t))
     /\ "Duration" \in {recv.t, arg.t} /\ AsFloat(arg).n # 0
     /\ oper \in OrderOperators)
    => out = Ok(V("bool", Holds(oper, AsFloat(recv), AsFloat(arg))))

(***************************************************************************)
(* Properties of IsNil and IsZero.                                         *)
(***************************************************************************)

\* C19: IsNil and IsZero return a boolean without panicking for every
\* wrapped value of every kind (the absent value, scalars, arrays, and
\* structs with slice fields included): IsNil is true exactly for the absent
\* value or a nil value of a kind that can be nil, and IsZero is true
\* exactly when IsNil is true or the kind is not slice, array or map and the
\* value equals the zero value of its type.
C19_NilAndZero ==
  /\ (pc = "done" /\ call = "IsNil")
       => out = Ok(V("bool",
                     \/ recv.t = "invalid"
                     \/ Kind(recv.t) \in {"ptr", "slice", "map"}
                          /\ recv.v = ZeroPayload(recv.t)))
  /\ (pc = "done" /\ call = "IsZero")
       => out = Ok(V("bool",
                     \/ recv.t = "invalid"
                     \/ Kind(recv.t) \in {"ptr", "slice", "map"}
                          /\ recv.v = ZeroPayload(recv.t)
                     \/ Kind(recv.t) \notin {"slice", "array", "map"}
                          /\ recv.v = ZeroPayload(recv.t)))

(***************************************************************************)
(* Properties of appending to a slice reflector.                           *)
(***************************************************************************)

\* C20: an Append or AppendValue call that returns the type_mismatch error
\* leaves the slice's length and contents exactly as they were before the
\* call, and every Append on a slice reflector made from a slice itself
\* (not from a pointer to one) returns the cant_append error and leaves
\* the slice unchanged.
C20_AppendFailureKeepsSlice ==
  /\ (pc = "done" /\ call \in {"Append", "AppendValue"}
        /\ out = Err(ERR_TYPE_MISMATCH))
       => store = recv
  /\ (pc = "done" /\ call = "Append" /\ IsSlice(recv))
       => out = Err(ERR_CANT_APPEND_NOT_A_POINTER) /\ store = recv

(***************************************************************************)
(* Properties of the indexes of a slice reflector.                         *)
(***************************************************************************)

\* C21: for every integer i, Index(i) returns a reflector of item i when
\* 0 <= i < Len and returns nil, without panicking, for every other i
\* (negative ones included); IndexValue(i) returns the item's value or nil
\* accordingly.
C21_IndexTotal ==
  (pc = "done" /\ call \in {"Index", "IndexValue"})
    => IF index \in 0..(SliceLen(recv) - 1)
       THEN out = Ok(ElemValue(sliceValue(recv), index + 1))
       ELSE out = Ok(IF call = "Index" THEN NilR ELSE NilIface)


\* C22: SetIndex(i, v) and Swap(i, j) return the index_out_of_bounds error,
\* without panicking and without changing the slice, whenever an index
\* names no item of the slice, that is for every index outside 0..Len-1,
\* the indexes between the length and the capacity included.
C22_OutOfBounds ==
  (/\ pc = "done" /\ call \in {"SetIndex", "Swap"}
   /\ \/ index \notin 0..(SliceLen(recv) - 1)
      \/ call = "Swap" /\ index2 \notin 0..(SliceLen(recv) - 1))
    => out = Err(ERR_INDEX_OUT_OF_BOUNDS) /\ store = recv

(***************************************************************************)
(* Properties of the slice conversion.                                     *)
(***************************************************************************)

\* The payload an item has inside a slice of the given type.
ItemPayload(val, sliceTyp) ==
  IF sliceTyp = "[]interface" THEN val ELSE val.v

\* C23: converting a slice s to a slice type with item type E gives a new
\* slice of the same length whose i-th item is the result of the scalar
\* conversion ConvertToType(s[i], E), for every i; when the scalar
\* conversion of an item fails the whole conversion fails with
\* type_mismatch; the source slice is left unchanged.
C23_SliceConversion ==
  (/\ pc = "done" /\ call = "ConvertToType"
   /\ IsSlice(recv) /\ Kind(typ) = "slice" /\ typ # recv.t)
    => LET scalar == [i \in 1..Len(recv.v.e) |->
                        ConvertToType(Index(recv, i), ElemType(typ))]
       IN /\ store = recv
          /\ IF \A i \in 1..Len(recv.v.e) : scalar[i].st = "ok"
             THEN out = Ok(V(typ, [nil |-> FALSE,
                                   e |-> [i \in 1..Len(recv.v.e) |->
                                            ItemPayload(scalar[i].val, typ)]]))
             ELSE out = Err(ERR_TYPE_MISMATCH)

(***************************************************************************)
(* Properties of sorting a slice reflector.                                *)
(***************************************************************************)

\* How often an item occurs in a sequence of items.
Count(items, x) == Cardinality({i \in 1..Len(items) : items[i] = x})

\* C24: after a successful SortByField(field, ascending) on a slice of
\* structs, the slice is a permutation of what it held before and the field
\* values are in non-decreasing order when ascending is true and in
\* non-increasing order when it is false, for every slice (field values
\* equal to zero included).
C24_SortByField ==
  (/\ pc = "done" /\ call = "SortByField" /\ out.st = "ok"
   /\ recv.t = "[]S" /\ field = "Int")
    => /\ Len(store.v.e) = Len(recv.v.e)
       /\ \A x \in SortItems : Count(store.v.e, x) = Count(recv.v.e, x)
       /\ \A i \in 1..(Len(store.v.e) - 1) :
            IF ascending THEN store.v.e[i].Int <= store.v.e[i + 1].Int
            ELSE store.v.e[i].Int >= store.v.e[i + 1].Int

(***************************************************************************)
(* Properties of the struct reflector.                                     *)
(***************************************************************************)

\* C25: SetFieldValue(name, v, convert) on a struct reflector returns
\* unknown_field when the struct has no field called name, and
\* type_mismatch when the field exists but v's type differs and conversion
\* is not enabled, changing no field in either case; on a reflector made
\* from a pointer to the struct, a value of the field's type (or a
\* convertible value with conversion enabled) is written to that field and
\* every other field keeps its value.
C25_SetFieldValue ==
  (pc = "done" /\ call = "SetFieldValue")
    => LET fieldTyp == FieldType(structItem(recv).t, field)
           converted == ConvertToType(Reflect(arg), fieldTyp)
       IN /\ fieldTyp = "invalid"
               => out = Err(ERR_UNKNOWN_FIELD) /\ store = recv
          /\ (fieldTyp # "invalid" /\ arg.t # fieldTyp /\ ~conv)
               => out = Err(ERR_TYPE_MISMATCH) /\ store = recv
          /\ (IsPtr(recv) /\ arg.t = fieldTyp)
               => out = Ok(NilIface) /\ store = WithField(recv, field, arg)
          /\ (IsPtr(recv) /\ fieldTyp # "invalid" /\ arg.t # fieldTyp
                /\ conv /\ converted.st = "ok")
               => /\ out = Ok(NilIface)
                  /\ store = WithField(recv, field, converted.val)

\* The value v under the name of a field of type ft cannot be loaded: it is
\* not nil or zero, and either it is a map for a struct (or struct pointer)
\* field that holds such a value for a field of that struct, or its type is
\* not ft and conversion is off or fails.
RECURSIVE Mismatch(_, _, _)
Mismatch(ft, v, doConvert) ==
  LET st == IF Kind(ft) = "ptr" THEN ElemType(ft) ELSE ft
  IN IF v.t = "nil" \/ IsZero(v) THEN FALSE
     ELSE IF v.t = MapType /\ Kind(st) = "struct"
     THEN \E k \in DOMAIN v.v.e :
            /\ FieldType(st, k) # "invalid"
            /\ Mismatch(FieldType(st, k), v.v.e[k], doConvert)
     ELSE v.t # ft /\ (~doConvert \/ ConvertToType(v, ft).st # "ok")

\* C26: FromMap returns an error whenever the map holds, under the name of
\* an existing field (struct and struct pointer fields included), a non-zero
\* value whose type does not match the field with conversion off, or whose
\* conversion fails with conversion on; a map whose keys name no field or
\* hold nil or zero values is loaded without error and without changing the
\* struct.
C26_FromMapErrors ==
  (pc = "done" /\ call = "FromMap")
    => /\ (\E k \in DOMAIN arg.v.e :
             /\ FieldType("N", k) # "invalid"
             /\ Mismatch(FieldType("N", k), arg.v.e[k], conv))
            => out.st = "err"
       /\ (\A k \in DOMAIN arg.v.e :
             \/ FieldType("N", k) = "invalid"
             \/ arg.v.e[k].t = "nil"
             \/ IsZero(arg.v.e[k]))
            => out = Ok(NilIface) /\ store = recv

\* The second operand of a comparison is absent or deep-zero.
ZeroOperand(value) ==
  LET b == IF value.t = "*Reflector" THEN value.v ELSE value
  IN b # NilR /\ (b.t = "nil" \/ ~IsValid(b) \/ DeepIsZero(b))

\* C27: when the second operand of CompareTo is absent or deep-zero, the
\* numeric zero takes its place and the operands are exchanged: the result
\* is that of the operator with the zero as the left operand and the first
\* operand as the right operand.
C27_ZeroExchange ==
  (/\ pc = "done" /\ call = "CompareTo"
   /\ IsValid(recv) /\ NormalizeOperator(oper) # ""
   /\ ZeroOperand(arg))
    => out = CompareTo(F0, recv, oper)

\* C28: a successful Append(v1, ..., vn) on a slice reflector made from a
\* pointer, with every vi of the type of the items, makes the slice n items
\* longer: the items it had, followed by v1, ..., vn in that order, as n
\* successive appends of one value would.
C28_AppendAll ==
  (/\ pc = "done" /\ call = "Append" /\ IsPtr(recv)
   /\ out = Ok(NilIface)
   /\ \A i \in 1..Len(arg.v) :
        arg.v[i] # NilR /\ arg.v[i].t = SliceItemType(recv))
    => /\ sliceValue(store).v.e
            = sliceValue(recv).v.e \o [i \in 1..Len(arg.v) |-> arg.v[i].v]
       /\ sliceValue(store).v.e
            = sliceValue(AppendValue(recv, recv, arg.v).store).v.e

\* What the ordering function of the sort that was called returns for the
\* second and the first item of the slice, the pair a sort of two or more
\* items compares first: the caller's function on the items (SortBy) or on
\* their fields (SortByFieldFunc), CompareTo on their fields (SortByField).
FirstAnswer ==
  LET a == Index(sliceValue(recv), 2)
      b == Index(sliceValue(recv), 1)
  IN IF call = "SortBy" THEN sorterFunc(sortFunc, a, b)
     ELSE IF call = "SortByFieldFunc"
     THEN sorterFunc(sortFunc, Field(a, field), Field(b, field))
     ELSE CompareTo(Field(a, field), Field(b, field),
                    IF ascending THEN "<" ELSE ">")

\* C29: when the ordering function passed to SortBy or SortByFieldFunc, or
\* the CompareTo call of SortByField, returns an error for a pair of items
\* during the sort, the sort method returns an error.
C29_SortErrorReported ==
  (/\ pc = "done" /\ call \in {"SortBy", "SortByFieldFunc", "SortByField"}
   /\ SliceLen(recv) >= 2
   /\ call # "SortBy" => /\ Kind(ElemType(sliceValue(recv).t)) = "struct"
                          /\ HasField(Index(sliceValue(recv), 1), field)
   /\ FirstAnswer.st = "err")
    => out.st = "err"

\* The two outcomes are results, and one is the negation of the other.
Negated(x, y) == (x.st = "ok" /\ y.st = "ok") => x.val.v = ~y.val.v

\* The operator whose result should be the negation of the result of op.
Complement(op) ==
  CASE op \in {"=", "=="} -> "!="
    [] op = "<" -> ">="
    [] op = ">" -> "<="

\* C30: for every pair of operands on which CompareTo fails for neither
\* operator, != gives the negation of =, >= the negation of <, and <= the
\* negation of >.
C30_Complementary ==
  (pc = "done" /\ call = "CompareTo" /\ oper \in {"=", "==", "<", ">"})
    => Negated(out, CompareTo(recv, arg, Complement(oper)))

\* The value an operand of CompareTo stands for: the value inside a
\* *Reflector, and the pointee of a pointer that is not nil.
Operand(value) ==
  LET inner == IF value.t = "*Reflector" THEN value.v ELSE value
  IN IF IsPtr(inner) /\ inner.v # << >> THEN Elem(inner) ELSE inner

\* A float32 or float64 that is NaN.
IsNaNFloat(x) == IsFloatKind(Kind(x.t)) /\ QIsNaN(x.v)

\* A string that strconv.ParseFloat reads as NaN.
IsNaNText(x) == x.t = "string" /\ ToLower(x.v) = << "n", "a", "n" >>

\* A value that is absent or zero: CompareTo puts float64(0) in its place.
IsZeroOperand(x) == ~IsValid(x) \/ DeepIsZero(x)

\* The pairs of operands that CompareTo compares as floats of which one is
\* NaN.  A NaN float is always compared as a float.  A NaN string in the
\* second place is compared as a float with a first operand that is zero,
\* of a numeric kind or a time; in the first place, with a second operand
\* that is not zero and is of a numeric kind other than time.Duration or a
\* time.
NaNCompared(a, b) ==
  \/ IsNaNFloat(a) \/ IsNaNFloat(b)
  \/ /\ IsNaNText(b)
     /\ IsZeroOperand(a) \/ IsNumericKind(Kind(a.t)) \/ a.t = "Time"
  \/ /\ IsNaNText(a) /\ ~IsZeroOperand(b)
     /\ (IsNumericKind(Kind(b.t)) /\ b.t # "Duration") \/ b.t = "Time"

\* C30, with NaN set apart.  For a pair that is compared as floats with a
\* NaN, CompareTo answers false for =, <, <=, > and >= and true for !=
\* whenever it returns a result.  For every other pair the results of = and
\* !=, of < and >=, and of > and <= are negations of each other whenever
\* neither fails.
C30_ComplementaryNumbers ==
  (pc = "done" /\ call = "CompareTo")
    => IF NaNCompared(Operand(recv), Operand(arg))
       THEN (out.st = "ok" /\ NormalizeOperator(oper) # "")
              => out = CmpOk(NormalizeOperator(oper) = "!=")
       ELSE oper \in {"=", "==", "<", ">"}
              => Negated(out, CompareTo(recv, arg, Complement(oper)))

\* 22 < 2.5 was answered false and 22 >= 2.5 is answered true; and the
\* string "NaN" < 22 was answered false as "NaN" >= 22 is.
C30_Witness ==
  /\ pc = "done" /\ call = "CompareTo" /\ oper = "<"
  /\ \/ /\ recv = V("int", 22) /\ arg = V("float64", Q(5, 2))
        /\ out = CmpOk(FALSE)
        /\ CompareTo(recv, arg, ">=") = CmpOk(TRUE)
     \/ /\ recv = V("string", << "N", "a", "N" >>) /\ arg = V("int", 22)
        /\ out = CmpOk(FALSE)
        /\ CompareTo(recv, arg, ">=") = CmpOk(FALSE)

====
